---- MODULE Spec2Model ----
(***************************************************************************)
(* Jarvis on Celo (src/main.py): the alert lifecycle.                      *)
(*                                                                         *)
(* The service is one asyncio event loop.  A coroutine runs without        *)
(* interruption until it awaits real network I/O (an httpx request or      *)
(* asyncio.sleep); the synchronous sqlite3, replicate and twilio calls do  *)
(* not yield.  Every action below is therefore the code of one handler     *)
(* from one suspension point to the next.                                  *)
(***************************************************************************)
EXTENDS Integers, Sequences, FiniteSets, Bags, TLC

VARIABLES
    users,              \* users table, keyed by telegram_id
    actions,            \* actions table, row i has action_id i
    alert_history,      \* alert_history table
    pending_actions,    \* dict action_id -> action details
    pool_history,       \* dict pool_address -> list of PoolData
    wallet_portfolios,  \* dict wallet_address -> list of WalletPortfolio
    monitored_pools,    \* set of pool addresses
    monitored_wallets,  \* set of wallet addresses
    monitoring_active,  \* the scheduler's run flag
    loops,              \* monitor_loop background tasks
    tasks,              \* request handlers suspended at an await
    fetches,            \* number of snapshots fetched so far
    reply               \* what the handler that returned last replied

vars == <<users, actions, alert_history, pending_actions, pool_history,
          wallet_portfolios, monitored_pools, monitored_wallets,
          monitoring_active, loops, tasks, fetches, reply>>

dbVars      == <<users, actions, alert_history>>
approvalVars == <<actions, alert_history, pending_actions>>
historyVars == <<pool_history, wallet_portfolios>>
monitorVars == <<monitored_pools, monitored_wallets, monitoring_active, loops>>

----------------------------------------------------------------------------
(* Bounds of the model *)

MaxActions  == 2    \* rows the actions table may hold
MaxApprovalActions == 1 \* rows it may hold where responses are explored
MaxInFlight == 2    \* request handlers suspended at the same time
MaxLoops    == 2    \* monitor_loop tasks alive at the same time
MaxAlive    == 1    \* the same, where every cycle is explored in full
MaxFetches  == 3    \* snapshots fetched in one behaviour
MaxDetectFetches == 2 \* the same, where the detectors' inputs are drawn

(* Values of the program *)

NULL == "NULL"      \* SQL NULL / Python None
SET  == "SET"       \* a column holding CURRENT_TIMESTAMP

PoolCap        == 100
WalletCap      == 50
PoolMinHistory == 10
PoolWindow     == 20
WalletMinHistory == 2

TelegramIds == {1, 2}

\* Addresses as requests carry them; Lower is str.lower().
PoolInputs   == {"0xP1", "0xp1", "0xp2"}
WalletInputs == {"0xW1", "0xw1"}

Lower(s) ==
    CASE s = "0xP1" -> "0xp1"
      [] s = "0xW1" -> "0xw1"
      [] s = "YES"  -> "yes"
      [] s = "NO"   -> "no"
      [] OTHER      -> s

Responses == {"yes", "no", "YES"}
ActionIds == 1 .. (MaxActions + 1)

----------------------------------------------------------------------------
(* Database helper functions *)

get_user_by_telegram_id(telegram_id) ==
    IF telegram_id \in DOMAIN users THEN users[telegram_id] ELSE NULL

Coalesce(new, old) == IF new # NULL THEN new ELSE old

\* A registration written INSERT OR REPLACE: the row is what was supplied.
register_telegram_user_replace(tbl, telegram_id, username, wallet_address, phone_number, pool_address) ==
    [t \in DOMAIN tbl \cup {telegram_id} |->
        IF t = telegram_id
        THEN [user_id |-> IF t \in DOMAIN tbl THEN tbl[t].user_id
                          ELSE Cardinality(DOMAIN tbl) + 1,
              username |-> username,
              wallet_address |-> wallet_address,
              phone_number |-> phone_number,
              monitored_pool_address |-> pool_address]
        ELSE tbl[t]]
\* INSERT ... ON CONFLICT(telegram_id) DO UPDATE SET col = COALESCE(new, col)
register_telegram_user(tbl, telegram_id, username, wallet_address, phone_number, pool_address) ==
    IF telegram_id \in DOMAIN tbl
    THEN [tbl EXCEPT ![telegram_id] =
            [user_id |-> @.user_id,
             username |-> Coalesce(username, @.username),
             wallet_address |-> Coalesce(wallet_address, @.wallet_address),
             phone_number |-> Coalesce(phone_number, @.phone_number),
             monitored_pool_address |->
                 Coalesce(pool_address, @.monitored_pool_address)]]
    ELSE [t \in DOMAIN tbl \cup {telegram_id} |->
            IF t = telegram_id
            THEN [user_id |-> Cardinality(DOMAIN tbl) + 1,
                  username |-> username,
                  wallet_address |-> wallet_address,
                  phone_number |-> phone_number,
                  monitored_pool_address |-> pool_address]
            ELSE tbl[t]]

save_action(tbl, user_id, alert_type, severity, proposed_action) ==
    Append(tbl, [user_id |-> user_id,
                 alert_type |-> alert_type,
                 severity |-> severity,
                 proposed_action |-> proposed_action,
                 status |-> "pending",
                 user_response |-> NULL,
                 telegram_message_id |-> NULL,
                 responded_at |-> NULL,
                 executed_at |-> NULL])

update_action_response(tbl, action_id, response) ==
    IF action_id \in DOMAIN tbl
    THEN [tbl EXCEPT ![action_id] =
            [@ EXCEPT !.status = IF Lower(response) = "yes"
                                 THEN "approved" ELSE "rejected",
                      !.user_response = response,
                      !.responded_at = SET]]
    ELSE tbl

mark_action_executed(tbl, action_id) ==
    IF action_id \in DOMAIN tbl
    THEN [tbl EXCEPT ![action_id] =
            [@ EXCEPT !.status = "executed", !.executed_at = SET]]
    ELSE tbl

save_alert_history(tbl, user_id, wallet_address, pool_address, alert_type, severity, ai_summary, call_initiated, telegram_sent) ==
    Append(tbl, [user_id |-> user_id,
                 wallet_address |-> wallet_address,
                 pool_address |-> pool_address,
                 alert_type |-> alert_type,
                 severity |-> severity,
                 ai_summary |-> ai_summary,
                 call_initiated |-> call_initiated,
                 telegram_sent |-> telegram_sent])

----------------------------------------------------------------------------
(* Alerts and the decision engine *)

CRITICAL == "CRITICAL"
HIGH     == "HIGH"
MEDIUM   == "MEDIUM"

Alert(severity, alertType, metric) ==
    [severity |-> severity, alertType |-> alertType, metric |-> metric]

\* The detectors return None, return an alert, or raise ZeroDivisionError.
NoAlert  == Alert("-", "None", <<0, 1>>)
ZeroDiv  == Alert("-", "ZeroDivisionError", <<0, 1>>)
IsAlert(a) == a.alertType \notin {"None", "ZeroDivisionError"}

generate_fake_alert(alert_type) ==
    CASE alert_type = "imbalance" -> Alert(HIGH, "pool_imbalance", <<358, 10>>)
      [] alert_type = "rug-pull"  -> Alert(CRITICAL, "wallet_value_drop", <<-45, 1>>)
      [] OTHER                    -> Alert(CRITICAL, "pool_tvl_drop", <<-253, 10>>)

\* What replicate_client.run can produce for the decision prompt.
AIOutputs == {"raise", "not_json", "json_ok", "json_no_action", "json_no_urgency"}

generate_action_decision(alert, output) ==
    CASE output = "raise" ->
            [action |-> "Monitor Situation",
             reasoning |-> <<alert.severity, "alert triggered">>,
             urgency |-> IF alert.severity = CRITICAL THEN "immediate" ELSE "soon",
             risk_if_ignored |-> "Situation may worsen"]
      [] output = "not_json" ->
            [action |-> "Review Portfolio",
             reasoning |-> <<"Anomaly detected, manual review recommended">>,
             urgency |-> "soon",
             risk_if_ignored |-> "Potential losses may increase"]
      [] output = "json_no_action" ->
            [reasoning |-> <<"ai">>, urgency |-> "immediate",
             risk_if_ignored |-> "ai"]
      [] output = "json_no_urgency" ->
            [action |-> "Remove Liquidity", reasoning |-> <<"ai">>,
             risk_if_ignored |-> "ai"]
      [] OTHER ->
            [action |-> "Remove Liquidity", reasoning |-> <<"ai">>,
             urgency |-> "immediate", risk_if_ignored |-> "ai"]

\* What replicate_client.run can produce for the summary prompt.
SummaryOutputs == {"raise", "ai"}

generate_ai_summary(alert, output) ==
    IF output = "raise" THEN <<alert.severity, "Alert:", alert.alertType>>
    ELSE <<"ai">>

make_phone_call(ok) == [success |-> ok]

\* send_action_request formats the message before it awaits the send; the
\* subscripts raise KeyError when the decision lacks a field.
send_action_request_raises(action_decision) ==
    {"action", "reasoning", "urgency", "risk_if_ignored"}
        \ DOMAIN action_decision # {}

Context(pool_address, address) ==
    [pool_address |-> pool_address, address |-> address]

\* A pipeline that persists the Action before it looks for the owner.
process_alert_begin_unowned(alert, context, telegram_id, make_call, sumOut, decOut, callOk) ==
    [kind |-> "return",
     actions |-> save_action(actions, 0, alert.alertType, alert.severity,
                             generate_action_decision(alert, decOut)),
     frame |-> <<>>]
(* process_alert_with_action, up to the await inside send_action_request.
   kind: "return" (no telegram id or no such user: the AlertResponse is
   returned), "raise" (KeyError), "suspend" (awaiting the Telegram send). *)
process_alert_begin(alert, context, telegram_id, make_call, sumOut, decOut, callOk) ==
    LET ai_summary      == generate_ai_summary(alert, sumOut)
        action_decision == generate_action_decision(alert, decOut)
        call_initiated  == IF make_call THEN make_phone_call(callOk).success
                           ELSE FALSE
        user            == get_user_by_telegram_id(telegram_id)
        saved           == save_action(actions, user.user_id, alert.alertType,
                                       alert.severity, action_decision.action)
        frame           == [telegram_id |-> telegram_id,
                            user_id |-> user.user_id,
                            action_id |-> Len(saved),
                            alert |-> alert,
                            action |-> action_decision,
                            context |-> context,
                            ai_summary |-> ai_summary,
                            call_initiated |-> call_initiated]
    IN  IF telegram_id = 0 \/ telegram_id \notin DOMAIN users
        THEN [kind |-> "return", actions |-> actions, frame |-> <<>>]
        ELSE IF "action" \notin DOMAIN action_decision
        THEN [kind |-> "raise", actions |-> actions, frame |-> <<>>]
        ELSE IF send_action_request_raises(action_decision)
        THEN [kind |-> "raise", actions |-> saved, frame |-> <<>>]
        ELSE [kind |-> "suspend", actions |-> saved, frame |-> <<frame>>]

\* A pipeline that writes its audit record only for a delivered request.
process_alert_history_delivered(frame, telegram_sent) ==
    IF telegram_sent
    THEN save_alert_history(alert_history, frame.user_id, frame.context.address,
                            frame.context.pool_address, frame.alert.alertType,
                            frame.alert.severity, frame.ai_summary,
                            frame.call_initiated, TRUE)
    ELSE alert_history
(* process_alert_with_action after the send returned: telegram_sent is
   whether a message id came back. *)
process_alert_history(frame, telegram_sent) ==
    save_alert_history(alert_history, frame.user_id, frame.context.address,
                       frame.context.pool_address, frame.alert.alertType,
                       frame.alert.severity, frame.ai_summary,
                       frame.call_initiated, telegram_sent)

process_alert_pending(frame) ==
    [i \in DOMAIN pending_actions \cup {frame.action_id} |->
        IF i = frame.action_id
        THEN [alert |-> frame.alert, action |-> frame.action,
              context |-> frame.context]
        ELSE pending_actions[i]]

----------------------------------------------------------------------------
(* Snapshots and the anomaly detectors.  Amounts are whole numbers; a
   percentage p/q with q > 0 is compared as p < c * q.                     *)

PoolData(tvl, ratio) == [tvl |-> tvl, ratio |-> ratio]

Position(value) == [protocol |-> "Ubeswap", type |-> "Liquidity Pool", value |-> value]

WalletPortfolio(totalValueUSD, positions) ==
    [totalValueUSD |-> totalValueUSD, positions |-> positions]

RECURSIVE SeqSum(_)
SeqSum(q) == IF q = <<>> THEN 0 ELSE Head(q) + SeqSum(Tail(q))

\* history[-n:]
LastN(history, n) ==
    SubSeq(history, IF Len(history) > n THEN Len(history) - n + 1 ELSE 1,
           Len(history))

Abs(x) == IF x < 0 THEN -x ELSE x

\* A detector that decides on any history it can average.
detect_pool_anomalies_unguarded(current, history) ==
    IF history = <<>> THEN NoAlert
    ELSE
    LET window   == LastN(history, PoolWindow)
        n        == IF PoolWindow < Len(window) THEN PoolWindow ELSE Len(window)
        sumTvl   == SeqSum([i \in 1 .. Len(window) |-> window[i].tvl])
        \* tvl_change = tvlNum / sumTvl
        tvlNum   == (current.tvl * n - sumTvl) * 100
        tvlRisks == IF tvlNum < -20 * sumTvl
                    THEN <<Alert(CRITICAL, "pool_tvl_drop", <<tvlNum, sumTvl>>)>>
                    ELSE IF tvlNum < -10 * sumTvl
                    THEN <<Alert(HIGH, "pool_tvl_drop", <<tvlNum, sumTvl>>)>>
                    ELSE <<>>
        sumRatio == SeqSum([i \in 1 .. Len(window) |-> window[i].ratio])
        \* ratio_change = ratioNum / sumRatio
        ratioNum == Abs((current.ratio * n - sumRatio) * 100)
        ratioRisks == IF ratioNum > 30 * sumRatio
                      THEN <<Alert(HIGH, "pool_imbalance", <<ratioNum, sumRatio>>)>>
                      ELSE <<>>
        risks    == tvlRisks \o ratioRisks
    IN  IF sumTvl = 0 \/ sumRatio = 0 THEN ZeroDiv
        ELSE IF risks # <<>> THEN risks[1] ELSE NoAlert
\* A detector that evaluates the imbalance rule first.
detect_pool_anomalies_imbalance_first(current, history) ==
    IF Len(history) < PoolMinHistory THEN NoAlert
    ELSE
    LET window   == LastN(history, PoolWindow)
        n        == IF PoolWindow < Len(window) THEN PoolWindow ELSE Len(window)
        sumTvl   == SeqSum([i \in 1 .. Len(window) |-> window[i].tvl])
        \* tvl_change = tvlNum / sumTvl
        tvlNum   == (current.tvl * n - sumTvl) * 100
        tvlRisks == IF tvlNum < -20 * sumTvl
                    THEN <<Alert(CRITICAL, "pool_tvl_drop", <<tvlNum, sumTvl>>)>>
                    ELSE IF tvlNum < -10 * sumTvl
                    THEN <<Alert(HIGH, "pool_tvl_drop", <<tvlNum, sumTvl>>)>>
                    ELSE <<>>
        sumRatio == SeqSum([i \in 1 .. Len(window) |-> window[i].ratio])
        \* ratio_change = ratioNum / sumRatio
        ratioNum == Abs((current.ratio * n - sumRatio) * 100)
        ratioRisks == IF ratioNum > 30 * sumRatio
                      THEN <<Alert(HIGH, "pool_imbalance", <<ratioNum, sumRatio>>)>>
                      ELSE <<>>
        risks    == ratioRisks \o tvlRisks
    IN  IF sumTvl = 0 \/ sumRatio = 0 THEN ZeroDiv
        ELSE IF risks # <<>> THEN risks[1] ELSE NoAlert
detect_pool_anomalies(current, history) ==
    IF Len(history) < PoolMinHistory THEN NoAlert
    ELSE
    LET window   == LastN(history, PoolWindow)
        n        == IF PoolWindow < Len(window) THEN PoolWindow ELSE Len(window)
        sumTvl   == SeqSum([i \in 1 .. Len(window) |-> window[i].tvl])
        \* tvl_change = tvlNum / sumTvl
        tvlNum   == (current.tvl * n - sumTvl) * 100
        tvlRisks == IF tvlNum < -20 * sumTvl
                    THEN <<Alert(CRITICAL, "pool_tvl_drop", <<tvlNum, sumTvl>>)>>
                    ELSE IF tvlNum < -10 * sumTvl
                    THEN <<Alert(HIGH, "pool_tvl_drop", <<tvlNum, sumTvl>>)>>
                    ELSE <<>>
        sumRatio == SeqSum([i \in 1 .. Len(window) |-> window[i].ratio])
        \* ratio_change = ratioNum / sumRatio
        ratioNum == Abs((current.ratio * n - sumRatio) * 100)
        ratioRisks == IF ratioNum > 30 * sumRatio
                      THEN <<Alert(HIGH, "pool_imbalance", <<ratioNum, sumRatio>>)>>
                      ELSE <<>>
        risks    == tvlRisks \o ratioRisks
    IN  IF sumTvl = 0 \/ sumRatio = 0 THEN ZeroDiv
        ELSE IF risks # <<>> THEN risks[1] ELSE NoAlert

\* next((p for p in prev.positions if p.protocol == pos.protocol), None)
PrevPosition(prev, pos) ==
    LET same == {i \in 1 .. Len(prev.positions) :
                    prev.positions[i].protocol = pos.protocol}
    IN  IF same = {} THEN <<>>
        ELSE <<prev.positions[CHOOSE i \in same : \A j \in same : i <= j]>>

RECURSIVE PositionRisks(_, _)
PositionRisks(positions, prev) ==
    IF positions = <<>> THEN <<>>
    ELSE LET pos      == Head(positions)
             prev_pos == PrevPosition(prev, pos)
             posNum   == (pos.value - prev_pos[1].value) * 100
         IN  (IF /\ pos.type = "Liquidity Pool"
                 /\ prev_pos # <<>>
                 /\ prev_pos[1].value > 0
                 /\ posNum < -10 * prev_pos[1].value
              THEN <<Alert(MEDIUM, "impermanent_loss",
                           <<posNum, prev_pos[1].value>>)>>
              ELSE <<>>) \o PositionRisks(Tail(positions), prev)

\* A detector that compares with the oldest snapshot it holds.
detect_wallet_risks_oldest(current, history) ==
    IF Len(history) < WalletMinHistory THEN NoAlert
    ELSE
    LET prev       == history[1]
        \* value_change = valueNum / prev.totalValueUSD
        valueNum   == (current.totalValueUSD - prev.totalValueUSD) * 100
        valueRisks == IF valueNum < -30 * prev.totalValueUSD
                      THEN <<Alert(CRITICAL, "wallet_value_drop",
                                   <<valueNum, prev.totalValueUSD>>)>>
                      ELSE IF valueNum < -15 * prev.totalValueUSD
                      THEN <<Alert(HIGH, "wallet_value_drop",
                                   <<valueNum, prev.totalValueUSD>>)>>
                      ELSE <<>>
        risks      == valueRisks \o PositionRisks(current.positions, prev)
    IN  IF prev.totalValueUSD = 0 THEN ZeroDiv
        ELSE IF risks # <<>> THEN risks[1] ELSE NoAlert
\* A detector that decides as soon as one snapshot is held.
detect_wallet_risks_from_one(current, history) ==
    IF Len(history) < 1 THEN NoAlert
    ELSE
    LET prev       == history[Len(history)]
        \* value_change = valueNum / prev.totalValueUSD
        valueNum   == (current.totalValueUSD - prev.totalValueUSD) * 100
        valueRisks == IF valueNum < -30 * prev.totalValueUSD
                      THEN <<Alert(CRITICAL, "wallet_value_drop",
                                   <<valueNum, prev.totalValueUSD>>)>>
                      ELSE IF valueNum < -15 * prev.totalValueUSD
                      THEN <<Alert(HIGH, "wallet_value_drop",
                                   <<valueNum, prev.totalValueUSD>>)>>
                      ELSE <<>>
        risks      == valueRisks \o PositionRisks(current.positions, prev)
    IN  IF prev.totalValueUSD = 0 THEN ZeroDiv
        ELSE IF risks # <<>> THEN risks[1] ELSE NoAlert
detect_wallet_risks(current, history) ==
    IF Len(history) < WalletMinHistory THEN NoAlert
    ELSE
    LET prev       == history[Len(history)]
        \* value_change = valueNum / prev.totalValueUSD
        valueNum   == (current.totalValueUSD - prev.totalValueUSD) * 100
        valueRisks == IF valueNum < -30 * prev.totalValueUSD
                      THEN <<Alert(CRITICAL, "wallet_value_drop",
                                   <<valueNum, prev.totalValueUSD>>)>>
                      ELSE IF valueNum < -15 * prev.totalValueUSD
                      THEN <<Alert(HIGH, "wallet_value_drop",
                                   <<valueNum, prev.totalValueUSD>>)>>
                      ELSE <<>>
        risks      == valueRisks \o PositionRisks(current.positions, prev)
    IN  IF prev.totalValueUSD = 0 THEN ZeroDiv
        ELSE IF risks # <<>> THEN risks[1] ELSE NoAlert

\* list.append(x) followed by "if len(list) > cap: list.pop(0)"
Trim(history, cap) == IF Len(history) > cap THEN Tail(history) ELSE history

HistoryOf(dict, key) == IF key \in DOMAIN dict THEN dict[key] ELSE <<>>

Put(dict, key, value) ==
    [k \in DOMAIN dict \cup {key} |-> IF k = key THEN value ELSE dict[k]]

----------------------------------------------------------------------------
(* Replies and suspended handlers *)

Reply(status) == [status |-> status]

AlertResponse(alert, callInitiated, telegramSent) ==
    [status |-> "AlertResponse", alert |-> alert.alertType,
     callInitiated |-> callInitiated, telegramSent |-> telegramSent]

CanSuspend == BagCardinality(tasks) < MaxInFlight
Suspend(t) == tasks' = tasks (+) SetToBag({t})
Finish(t)  == tasks' = tasks (-) SetToBag({t})
Suspended(kind) == {t \in BagToSet(tasks) : t.kind = kind}

Without(dict, key) == [k \in DOMAIN dict \ {key} |-> dict[k]]

----------------------------------------------------------------------------
(* Approval workflow: the Telegram webhook and the REST endpoints *)

\* telegram_webhook, "callback_query" branch, up to the await of the
\* confirmation message (or to the return when the id is not pending).
telegram_webhook_callback(telegram_id, response, action_id) ==
    /\ actions' = update_action_response(actions, action_id, response)
    /\ IF action_id \in DOMAIN pending_actions
       THEN /\ CanSuspend
            /\ Suspend([kind |-> "telegram_webhook", telegram_id |-> telegram_id,
                        response |-> response, action_id |-> action_id])
            /\ UNCHANGED reply
       ELSE /\ reply' = Reply("ok")
            /\ UNCHANGED tasks
    /\ UNCHANGED <<users, alert_history, pending_actions, historyVars,
                   monitorVars, fetches>>

\* telegram_webhook after the confirmation was sent: execute on "yes", then
\* del pending_actions[action_id], whose KeyError the handler's except turns
\* into {"ok": False}.
telegram_webhook_resume(t) ==
    /\ t \in Suspended("telegram_webhook")
    /\ actions' = IF t.response = "yes"
                  THEN mark_action_executed(actions, t.action_id)
                  ELSE actions
    /\ IF t.action_id \in DOMAIN pending_actions
       THEN /\ pending_actions' = Without(pending_actions, t.action_id)
            /\ reply' = Reply("ok")
       ELSE /\ reply' = Reply("webhook_error")
            /\ UNCHANGED pending_actions
    /\ Finish(t)
    /\ UNCHANGED <<users, alert_history, historyVars, monitorVars, fetches>>

\* telegram_webhook, "message" branch, /start command.
telegram_webhook_start(telegram_id, username) ==
    /\ users' = register_telegram_user(users, telegram_id, username,
                                       NULL, NULL, NULL)
    /\ reply' = Reply("ok")
    /\ UNCHANGED <<actions, alert_history, pending_actions, historyVars,
                   monitorVars, tasks, fetches>>

\* The texts of the model: a command word, followed by an action id in
\* "/yes_<id>" and "/no_<id>", the replies the request advertises.
Text(word, id) == [word |-> word, id |-> id]

\* The words the "message" branch tests with text.startswith, in its order.
MessageCommands ==
    <<"/start", "/help", "/wallet", "/pool", "/status", "/history", "/actions">>

\* telegram_webhook, "message" branch: /start registers the sender, /help
\* answers with the command list, and a text that starts with none of the
\* words falls through the elif chain to the return of {"ok": True}.
telegram_webhook_message(telegram_id, text) ==
    IF text.word = MessageCommands[1]
    THEN telegram_webhook_start(telegram_id, NULL)
    ELSE /\ reply' = Reply("ok")
         /\ UNCHANGED <<users, actions, alert_history, pending_actions,
                        historyVars, monitorVars, tasks, fetches>>

\* telegram_webhook, "message" branch, "/wallet <address>": the sender is
\* registered with the lower-cased address, which joins monitored_wallets;
\* the fetch and the send that follow change nothing.
telegram_webhook_wallet(telegram_id, address) ==
    /\ users' = register_telegram_user(users, telegram_id, NULL,
                                       Lower(address), NULL, NULL)
    /\ monitored_wallets' = monitored_wallets \cup {Lower(address)}
    /\ reply' = Reply("ok")
    /\ UNCHANGED <<actions, alert_history, pending_actions, historyVars,
                   monitored_pools, monitoring_active, loops, tasks, fetches>>

\* POST /actions/{action_id}/respond
respond_to_action(action_id, response) ==
    LET updated == update_action_response(actions, action_id, response) IN
    /\ IF action_id \in DOMAIN pending_actions
       THEN IF Lower(response) = "yes"
            THEN /\ actions' = mark_action_executed(updated, action_id)
                 /\ reply' = Reply("approved")
            ELSE /\ actions' = updated
                 /\ reply' = Reply("rejected")
       ELSE /\ actions' = updated
            /\ reply' = Reply("Action not found")
    /\ UNCHANGED <<users, alert_history, pending_actions, historyVars,
                   monitorVars, tasks, fetches>>

\* POST /test-alert, from the return of get_pool_data (whose failure is
\* replaced by mock data) to the await inside process_alert_with_action.
test_alert(alertType, phoneCall, telegramUserId, poolAddress, sumOut, decOut, callOk) ==
    LET alert == generate_fake_alert(alertType)
        out   == process_alert_begin(alert, Context(poolAddress, ""),
                                     telegramUserId, phoneCall,
                                     sumOut, decOut, callOk)
    IN  /\ Len(out.actions) <= MaxActions
        /\ actions' = out.actions
        /\ CASE out.kind = "suspend" ->
                    /\ CanSuspend
                    /\ Suspend([kind |-> "test_alert", frame |-> out.frame[1]])
                    /\ UNCHANGED reply
             [] out.kind = "raise" ->
                    /\ reply' = Reply("error")
                    /\ UNCHANGED tasks
             [] OTHER ->
                    /\ reply' = AlertResponse(alert, phoneCall /\ callOk, FALSE)
                    /\ UNCHANGED tasks
        /\ UNCHANGED <<users, alert_history, pending_actions, historyVars,
                       monitorVars, fetches>>

test_alert_resume(t, telegram_sent) ==
    /\ t \in Suspended("test_alert")
    /\ alert_history' = process_alert_history(t.frame, telegram_sent)
    /\ pending_actions' = process_alert_pending(t.frame)
    /\ reply' = AlertResponse(t.frame.alert, t.frame.call_initiated, telegram_sent)
    /\ Finish(t)
    /\ UNCHANGED <<users, actions, historyVars, monitorVars, fetches>>

----------------------------------------------------------------------------
(* Monitor scheduler *)

\* What a suspended fetch can resume with: an exception, or a snapshot.
PoolFetches   == {PoolData(1000, 100), PoolData(750, 100)}
WalletFetches == {WalletPortfolio(1000, <<>>), WalletPortfolio(600, <<>>),
                  WalletPortfolio(0, <<>>)}
\* get_pool_data / get_wallet_portfolio raised: no snapshot.
Raised == <<>>
Outcomes(snapshots) == {Raised} \cup {<<x>> : x \in snapshots}

NoLoop ==
    [pc |-> "none", phase |-> "pools", pools |-> {}, wallets |-> {},
     cur |-> NULL, lp_pool |-> NULL, current |-> <<>>, alert |-> <<>>,
     telegram_users |-> <<>>, frame |-> <<>>,
     cycle |-> {}, visited |-> {}, raised |-> FALSE, stopped |-> FALSE]

Alive(l) == loops[l].pc \notin {"none", "done"}

\* A start that adds the task whatever the flag says.
start_monitoring_unguarded ==
    /\ \E l \in 1 .. MaxLoops : ~Alive(l)
    /\ LET l == CHOOSE k \in 1 .. MaxLoops :
                   ~Alive(k) /\ \A j \in 1 .. MaxLoops : ~Alive(j) => k <= j
       IN  loops' = [k \in 1 .. MaxLoops |->
                       IF k = l THEN [NoLoop EXCEPT !.pc = "scheduled"]
                       ELSE [loops[k] EXCEPT !.stopped = FALSE]]
    /\ monitoring_active' = TRUE
    /\ reply' = Reply("started")
    /\ UNCHANGED <<dbVars, pending_actions, historyVars, monitored_pools,
                   monitored_wallets, tasks, fetches>>
\* POST /monitor/start: BackgroundTasks runs monitor_loop after the reply.
\* A start clears the "stopped" marks of the loops still alive.
start_monitoring ==
    IF monitoring_active
    THEN /\ reply' = Reply("already_running")
         /\ UNCHANGED <<dbVars, pending_actions, historyVars, monitorVars,
                        tasks, fetches>>
    ELSE /\ \E l \in 1 .. MaxLoops : ~Alive(l)
         /\ LET l == CHOOSE k \in 1 .. MaxLoops :
                        ~Alive(k) /\ \A j \in 1 .. MaxLoops : ~Alive(j) => k <= j
            IN  loops' = [k \in 1 .. MaxLoops |->
                            IF k = l THEN [NoLoop EXCEPT !.pc = "scheduled"]
                            ELSE [loops[k] EXCEPT !.stopped = FALSE]]
         /\ monitoring_active' = TRUE
         /\ reply' = Reply("started")
         /\ UNCHANGED <<dbVars, pending_actions, historyVars, monitored_pools,
                        monitored_wallets, tasks, fetches>>

\* POST /monitor/stop.  "stopped" records, for the loops it finds with
\* subjects of their cycle still to do, that the flag fell mid-cycle.
stop_monitoring ==
    /\ monitoring_active' = FALSE
    /\ loops' = [l \in 1 .. MaxLoops |->
                    IF loops[l].pc \in {"pool_fetch", "pool_send",
                                        "wallet_fetch", "wallet_send"}
                    THEN [loops[l] EXCEPT !.stopped = TRUE]
                    ELSE loops[l]]
    /\ reply' = Reply("stopped")
    /\ UNCHANGED <<dbVars, pending_actions, historyVars, monitored_pools,
                   monitored_wallets, tasks, fetches>>

\* SELECT telegram_id FROM users WHERE monitored_pool_address = ?  (in
\* rowid order)
PoolWatchers(pool_addr) ==
    LET ids == {t \in DOMAIN users : users[t].monitored_pool_address = pool_addr}
    IN  CHOOSE q \in [1 .. Cardinality(ids) -> ids] :
            \A i, j \in 1 .. Cardinality(ids) :
                i < j => users[q[i]].user_id < users[q[j]].user_id

\* SELECT ... FROM users WHERE wallet_address = ?  followed by fetchone()
WalletOwner(wallet_addr) ==
    LET ids == {t \in DOMAIN users : users[t].wallet_address = wallet_addr}
    IN  IF ids = {} THEN <<>>
        ELSE <<CHOOSE t \in ids :
                 \A u \in ids : users[t].user_id <= users[u].user_id>>

\* The loop records where its for-loops resume: the next pool of
\* list(monitored_pools), then the wallets of list(monitored_wallets), taken
\* when the pools are done, then asyncio.sleep(60).
WalletStep(r) ==
    IF r.wallets # {}
    THEN {[r EXCEPT !.pc = "wallet_fetch", !.cur = w, !.wallets = @ \ {w},
                    !.lp_pool = IF WalletOwner(w) = <<>> THEN NULL
                                ELSE users[WalletOwner(w)[1]].monitored_pool_address]
            : w \in r.wallets}
    ELSE {[r EXCEPT !.pc = "sleep", !.cur = NULL, !.lp_pool = NULL]}

NextSubject(r0) ==
    LET r == [r0 EXCEPT !.current = <<>>, !.alert = <<>>,
                        !.telegram_users = <<>>, !.frame = <<>>]
    IN  IF r.phase = "pools" /\ r.pools # {}
        THEN {[r EXCEPT !.pc = "pool_fetch", !.cur = p, !.pools = @ \ {p}]
                : p \in r.pools}
        ELSE IF r.phase = "pools"
        THEN WalletStep([r EXCEPT !.phase = "wallets",
                                  !.wallets = monitored_wallets,
                                  !.cycle = @ \cup monitored_wallets])
        ELSE WalletStep(r)

Visit(r)  == [r EXCEPT !.visited = @ \cup {r.cur}]
Failed(r) == [r EXCEPT !.visited = @ \cup {r.cur}, !.raised = TRUE]

\* A loop whose subjects have no handler of their own: the exception reaches
\* "except Exception" of the while body, which sleeps.
OnError_outer(r) ==
    {[r EXCEPT !.pc = "sleep", !.cur = NULL, !.lp_pool = NULL, !.raised = TRUE,
               !.current = <<>>, !.alert = <<>>, !.telegram_users = <<>>,
               !.frame = <<>>]}
\* "except Exception as e: print(...)" inside each for-loop: the subject is
\* given up and the for-loop goes on with the next one.
OnError(r) == NextSubject(Failed(r))

\* A loop written "while True:", which starts a cycle whatever the flag says.
monitor_loop_iterate_forever(l) ==
    /\ loops[l].pc \in {"scheduled", "sleep"}
    /\ loops' \in {[loops EXCEPT ![l] = r] :
            r \in NextSubject([NoLoop EXCEPT !.pools = monitored_pools,
                                             !.cycle = monitored_pools])}
    /\ UNCHANGED <<dbVars, pending_actions, historyVars, monitored_pools,
                   monitored_wallets, monitoring_active, tasks, fetches, reply>>
\* "while monitoring_active:", reached when the task first runs and each
\* time asyncio.sleep(60) returns.
monitor_loop_iterate(l) ==
    /\ loops[l].pc \in {"scheduled", "sleep"}
    /\ IF monitoring_active
       THEN loops' \in {[loops EXCEPT ![l] = r] :
                r \in NextSubject([NoLoop EXCEPT !.pools = monitored_pools,
                                                 !.cycle = monitored_pools])}
       ELSE loops' = [loops EXCEPT ![l] = [NoLoop EXCEPT !.pc = "done"]]
    /\ UNCHANGED <<dbVars, pending_actions, historyVars, monitored_pools,
                   monitored_wallets, monitoring_active, tasks, fetches, reply>>

\* The pool branch from "for tg_id in telegram_users" on: each owner's
\* process_alert_with_action suspends at its send or raises; after the last
\* one the snapshot is appended and the history trimmed.
PoolAlertStep(l, r, sumOut, decOut, callOk) ==
    IF r.telegram_users = <<>>
    THEN /\ pool_history' = Put(pool_history, r.cur,
                  Trim(Append(HistoryOf(pool_history, r.cur), r.current[1]),
                       PoolCap))
         /\ loops' \in {[loops EXCEPT ![l] = n] : n \in NextSubject(Visit(r))}
         /\ UNCHANGED actions
    ELSE LET out == process_alert_begin(r.alert[1],
                        Context(r.cur, ""), Head(r.telegram_users), TRUE,
                        sumOut, decOut, callOk)
         IN  /\ Len(out.actions) <= MaxActions
             /\ actions' = out.actions
             /\ pool_history' = Put(pool_history, r.cur,
                                    HistoryOf(pool_history, r.cur))
             /\ IF out.kind = "suspend"
                THEN loops' = [loops EXCEPT ![l] =
                        [r EXCEPT !.pc = "pool_send", !.frame = out.frame,
                                  !.telegram_users = Tail(@)]]
                ELSE loops' \in {[loops EXCEPT ![l] = n] :
                                    n \in OnError(r)}

\* monitor_loop when get_pool_data returns or raises.
monitor_loop_pool_fetched(l, fetched, sumOut, decOut, callOk) ==
    LET r == loops[l] IN
    /\ r.pc = "pool_fetch"
    /\ IF fetched = Raised
       THEN /\ loops' \in {[loops EXCEPT ![l] = n] : n \in OnError(r)}
            /\ UNCHANGED <<actions, pool_history, fetches>>
       ELSE LET history    == HistoryOf(pool_history, r.cur)
                pool_alert == detect_pool_anomalies(fetched[1], history)
            IN  /\ fetches < MaxFetches
                /\ fetches' = fetches + 1
                /\ IF pool_alert = ZeroDiv
                   THEN /\ pool_history' = Put(pool_history, r.cur, history)
                        /\ loops' \in {[loops EXCEPT ![l] = n] :
                                          n \in OnError(r)}
                        /\ UNCHANGED actions
                   ELSE PoolAlertStep(l,
                            [r EXCEPT !.current = fetched,
                                      !.alert = <<pool_alert>>,
                                      !.telegram_users =
                                          IF IsAlert(pool_alert)
                                          THEN PoolWatchers(r.cur) ELSE <<>>],
                            sumOut, decOut, callOk)
    /\ UNCHANGED <<users, alert_history, pending_actions, wallet_portfolios,
                   monitored_pools, monitored_wallets, monitoring_active,
                   tasks, reply>>

\* monitor_loop when an owner's notification returns.
monitor_loop_pool_sent(l, telegram_sent, sumOut, decOut, callOk) ==
    LET r == loops[l] IN
    /\ r.pc = "pool_send"
    /\ alert_history' = process_alert_history(r.frame[1], telegram_sent)
    /\ pending_actions' = process_alert_pending(r.frame[1])
    /\ PoolAlertStep(l, [r EXCEPT !.frame = <<>>], sumOut, decOut, callOk)
    /\ UNCHANGED <<users, wallet_portfolios, monitored_pools, monitored_wallets,
                   monitoring_active, tasks, fetches, reply>>

WalletAppend(l, r) ==
    /\ wallet_portfolios' = Put(wallet_portfolios, r.cur,
            Trim(Append(HistoryOf(wallet_portfolios, r.cur), r.current[1]),
                 WalletCap))
    /\ loops' \in {[loops EXCEPT ![l] = n] : n \in NextSubject(Visit(r))}

\* monitor_loop when get_wallet_portfolio returns or raises.
monitor_loop_wallet_fetched(l, fetched, sumOut, decOut, callOk) ==
    LET r == loops[l] IN
    /\ r.pc = "wallet_fetch"
    /\ IF fetched = Raised
       THEN /\ loops' \in {[loops EXCEPT ![l] = n] : n \in OnError(r)}
            /\ UNCHANGED <<actions, wallet_portfolios, fetches>>
       ELSE LET history      == HistoryOf(wallet_portfolios, r.cur)
                wallet_alert == detect_wallet_risks(fetched[1], history)
                owner        == WalletOwner(r.cur)
                out          == process_alert_begin(wallet_alert,
                                    Context("", r.cur),
                                    IF owner = <<>> THEN 0 ELSE owner[1],
                                    TRUE, sumOut, decOut, callOk)
                r1           == [r EXCEPT !.current = fetched,
                                          !.alert = <<wallet_alert>>]
            IN  /\ fetches < MaxFetches
                /\ fetches' = fetches + 1
                /\ \/ r.lp_pool # NULL
                   \/ fetched[1].positions = <<>>
                /\ CASE wallet_alert = ZeroDiv ->
                          /\ wallet_portfolios' =
                                 Put(wallet_portfolios, r.cur, history)
                          /\ loops' \in {[loops EXCEPT ![l] = n] :
                                            n \in OnError(r)}
                          /\ UNCHANGED actions
                     [] wallet_alert = NoAlert ->
                          /\ WalletAppend(l, r1)
                          /\ UNCHANGED actions
                     [] OTHER ->
                          /\ Len(out.actions) <= MaxActions
                          /\ actions' = out.actions
                          /\ CASE out.kind = "suspend" ->
                                    /\ wallet_portfolios' =
                                         Put(wallet_portfolios, r.cur, history)
                                    /\ loops' = [loops EXCEPT ![l] =
                                         [r1 EXCEPT !.pc = "wallet_send",
                                                    !.frame = out.frame]]
                               [] out.kind = "raise" ->
                                    /\ wallet_portfolios' =
                                         Put(wallet_portfolios, r.cur, history)
                                    /\ loops' \in {[loops EXCEPT ![l] = n] :
                                         n \in OnError(r)}
                               [] OTHER -> WalletAppend(l, r1)
    /\ UNCHANGED <<users, alert_history, pending_actions, pool_history,
                   monitored_pools, monitored_wallets, monitoring_active,
                   tasks, reply>>

\* monitor_loop when the wallet owner's notification returns.
monitor_loop_wallet_sent(l, telegram_sent) ==
    LET r == loops[l] IN
    /\ r.pc = "wallet_send"
    /\ alert_history' = process_alert_history(r.frame[1], telegram_sent)
    /\ pending_actions' = process_alert_pending(r.frame[1])
    /\ WalletAppend(l, [r EXCEPT !.frame = <<>>])
    /\ UNCHANGED <<users, actions, pool_history, monitored_pools,
                   monitored_wallets, monitoring_active, tasks, fetches, reply>>

----------------------------------------------------------------------------
(* Registration and the manual check endpoints *)

LowerOrNull(s) == IF s = NULL THEN NULL ELSE Lower(s)

\* POST /users/register
register_user(telegram_id, username, wallet_address, phone_number, pool_address) ==
    /\ users' = register_telegram_user(users, telegram_id, username,
                                       wallet_address, phone_number, pool_address)
    /\ monitored_wallets' = IF wallet_address # NULL
                            THEN monitored_wallets \cup {Lower(wallet_address)}
                            ELSE monitored_wallets
    /\ monitored_pools' = IF pool_address # NULL
                          THEN monitored_pools \cup {Lower(pool_address)}
                          ELSE monitored_pools
    /\ reply' = Reply("success")
    /\ UNCHANGED <<actions, alert_history, pending_actions, historyVars,
                   monitoring_active, loops, tasks, fetches>>

\* POST /pool/check when get_pool_data has returned: the snapshot is
\* appended before the detector runs, and both trims come after the
\* pipeline.  An exception leaves the handler through the global handler.
check_pool_endpoint(poolAddress, telegramUserId, current_data, sumOut, decOut, callOk) ==
    LET pool_address == Lower(poolAddress)
        appended     == Append(HistoryOf(pool_history, pool_address), current_data)
        alert        == detect_pool_anomalies(current_data, appended)
        out          == process_alert_begin(alert,
                            Context(pool_address, ""), telegramUserId, TRUE,
                            sumOut, decOut, callOk)
    IN  /\ fetches < MaxFetches
        /\ fetches' = fetches + 1
        /\ CASE alert = ZeroDiv ->
                  /\ pool_history' = Put(pool_history, pool_address, appended)
                  /\ reply' = Reply("error")
                  /\ UNCHANGED <<actions, tasks>>
             [] alert = NoAlert ->
                  /\ pool_history' = Put(pool_history, pool_address,
                                         Trim(appended, PoolCap))
                  /\ reply' = Reply("AlertResponse")
                  /\ UNCHANGED <<actions, tasks>>
             [] OTHER ->
                  /\ Len(out.actions) <= MaxActions
                  /\ actions' = out.actions
                  /\ CASE out.kind = "suspend" ->
                            /\ CanSuspend
                            /\ pool_history' =
                                   Put(pool_history, pool_address, appended)
                            /\ Suspend([kind |-> "check_pool",
                                        pool_address |-> pool_address,
                                        frame |-> out.frame[1]])
                            /\ UNCHANGED reply
                       [] out.kind = "raise" ->
                            /\ pool_history' =
                                   Put(pool_history, pool_address, appended)
                            /\ reply' = Reply("error")
                            /\ UNCHANGED tasks
                       [] OTHER ->
                            /\ pool_history' = Put(pool_history, pool_address,
                                                   Trim(appended, PoolCap))
                            /\ reply' = AlertResponse(alert, callOk, FALSE)
                            /\ UNCHANGED tasks
        /\ UNCHANGED <<users, alert_history, pending_actions, wallet_portfolios,
                       monitorVars>>

check_pool_resume(t, telegram_sent) ==
    /\ t \in Suspended("check_pool")
    /\ alert_history' = process_alert_history(t.frame, telegram_sent)
    /\ pending_actions' = process_alert_pending(t.frame)
    /\ pool_history' = [pool_history EXCEPT ![t.pool_address] = Trim(@, PoolCap)]
    /\ reply' = AlertResponse(t.frame.alert, t.frame.call_initiated, telegram_sent)
    /\ Finish(t)
    /\ UNCHANGED <<users, actions, wallet_portfolios, monitorVars, fetches>>

\* POST /wallet/analyze when get_wallet_portfolio has returned; the whole
\* body is inside try/except, which replies {"error": ...}.
analyze_wallet(walletAddress, telegramUserId, portfolio, sumOut, decOut, callOk) ==
    LET wallet_address == Lower(walletAddress)
        history        == HistoryOf(wallet_portfolios, wallet_address)
        alert          == detect_wallet_risks(portfolio, history)
        out            == process_alert_begin(alert,
                              Context("", wallet_address), telegramUserId, TRUE,
                              sumOut, decOut, callOk)
        appended       == Put(wallet_portfolios, wallet_address,
                              Trim(Append(history, portfolio), WalletCap))
        touched        == Put(wallet_portfolios, wallet_address, history)
    IN  /\ fetches < MaxFetches
        /\ fetches' = fetches + 1
        /\ CASE alert = ZeroDiv ->
                  /\ wallet_portfolios' = touched
                  /\ reply' = Reply("error")
                  /\ UNCHANGED <<actions, tasks>>
             [] alert = NoAlert ->
                  /\ wallet_portfolios' = appended
                  /\ reply' = Reply("AlertResponse")
                  /\ UNCHANGED <<actions, tasks>>
             [] OTHER ->
                  /\ Len(out.actions) <= MaxActions
                  /\ actions' = out.actions
                  /\ CASE out.kind = "suspend" ->
                            /\ CanSuspend
                            /\ wallet_portfolios' = touched
                            /\ Suspend([kind |-> "analyze_wallet",
                                        wallet_address |-> wallet_address,
                                        portfolio |-> portfolio,
                                        frame |-> out.frame[1]])
                            /\ UNCHANGED reply
                       [] out.kind = "raise" ->
                            /\ wallet_portfolios' = touched
                            /\ reply' = Reply("error")
                            /\ UNCHANGED tasks
                       [] OTHER ->
                            /\ wallet_portfolios' = appended
                            /\ reply' = AlertResponse(alert, callOk, FALSE)
                            /\ UNCHANGED tasks
        /\ UNCHANGED <<users, alert_history, pending_actions, pool_history,
                       monitorVars>>

analyze_wallet_resume(t, telegram_sent) ==
    /\ t \in Suspended("analyze_wallet")
    /\ alert_history' = process_alert_history(t.frame, telegram_sent)
    /\ pending_actions' = process_alert_pending(t.frame)
    /\ wallet_portfolios' = [wallet_portfolios EXCEPT ![t.wallet_address] =
                                Trim(Append(@, t.portfolio), WalletCap)]
    /\ reply' = AlertResponse(t.frame.alert, t.frame.call_initiated, telegram_sent)
    /\ Finish(t)
    /\ UNCHANGED <<users, actions, pool_history, monitorVars, fetches>>

\* "if request.telegramUserId: register_telegram_user(...)" of the
\* /monitor/add handlers.
RegisterIfGiven(telegramUserId, wallet_address, pool_address) ==
    IF telegramUserId # 0
    THEN register_telegram_user(users, telegramUserId, NULL, wallet_address,
                                NULL, pool_address)
    ELSE users

\* POST /pool/monitor/add up to its await of get_pool_data, which it reaches
\* only when the pool has no history entry; otherwise up to the reply.
add_pool_monitoring(poolAddress, telegramUserId) ==
    LET pool_address == Lower(poolAddress) IN
    /\ monitored_pools' = monitored_pools \cup {pool_address}
    /\ IF pool_address \notin DOMAIN pool_history
       THEN /\ CanSuspend
            /\ Suspend([kind |-> "add_pool", pool_address |-> pool_address,
                        telegramUserId |-> telegramUserId])
            /\ UNCHANGED <<users, reply>>
       ELSE /\ users' = RegisterIfGiven(telegramUserId, NULL, pool_address)
            /\ reply' = Reply("added")
            /\ UNCHANGED tasks
    /\ UNCHANGED <<actions, alert_history, pending_actions, historyVars,
                   monitored_wallets, monitoring_active, loops, fetches>>

\* POST /pool/monitor/add when get_pool_data returns or raises: the entry is
\* assigned a new list, [pool_data] or [].
add_pool_monitoring_resume(t, fetched) ==
    /\ t \in Suspended("add_pool")
    /\ IF fetched = Raised
       THEN /\ pool_history' = Put(pool_history, t.pool_address, <<>>)
            /\ UNCHANGED fetches
       ELSE /\ fetches < MaxFetches
            /\ fetches' = fetches + 1
            /\ pool_history' = Put(pool_history, t.pool_address, <<fetched[1]>>)
    /\ users' = RegisterIfGiven(t.telegramUserId, NULL, t.pool_address)
    /\ reply' = Reply("added")
    /\ Finish(t)
    /\ UNCHANGED <<actions, alert_history, pending_actions, wallet_portfolios,
                   monitorVars>>

\* POST /wallet/monitor/add up to its await of get_wallet_portfolio, or to
\* the reply when the wallet has a history entry.
add_wallet_monitoring(walletAddress, telegramUserId) ==
    LET wallet_address == Lower(walletAddress) IN
    /\ monitored_wallets' = monitored_wallets \cup {wallet_address}
    /\ IF wallet_address \notin DOMAIN wallet_portfolios
       THEN /\ CanSuspend
            /\ Suspend([kind |-> "add_wallet", wallet_address |-> wallet_address,
                        telegramUserId |-> telegramUserId])
            /\ UNCHANGED <<users, reply>>
       ELSE /\ users' = RegisterIfGiven(telegramUserId, wallet_address, NULL)
            /\ reply' = Reply("added")
            /\ UNCHANGED tasks
    /\ UNCHANGED <<actions, alert_history, pending_actions, historyVars,
                   monitored_pools, monitoring_active, loops, fetches>>

\* POST /wallet/monitor/add when get_wallet_portfolio returns or raises; the
\* handler has no try, so an exception ends it before the assignment.
add_wallet_monitoring_resume(t, fetched) ==
    /\ t \in Suspended("add_wallet")
    /\ IF fetched = Raised
       THEN /\ reply' = Reply("error")
            /\ UNCHANGED <<users, wallet_portfolios, fetches>>
       ELSE /\ fetches < MaxFetches
            /\ fetches' = fetches + 1
            /\ wallet_portfolios' =
                   Put(wallet_portfolios, t.wallet_address, <<fetched[1]>>)
            /\ users' = RegisterIfGiven(t.telegramUserId, t.wallet_address, NULL)
            /\ reply' = Reply("added")
    /\ Finish(t)
    /\ UNCHANGED <<actions, alert_history, pending_actions, pool_history,
                   monitorVars>>

----------------------------------------------------------------------------
(* The approval workflow on its own: owners register with /start, alerts
   come from /test-alert, responses from the webhook and the REST endpoint. *)

InitApproval ==
    /\ users = <<>>
    /\ actions = <<>>
    /\ alert_history = <<>>
    /\ pending_actions = <<>>
    /\ pool_history = <<>>
    /\ wallet_portfolios = <<>>
    /\ monitored_pools = {}
    /\ monitored_wallets = {}
    /\ monitoring_active = FALSE
    /\ loops = [l \in 1 .. MaxLoops |-> NoLoop]
    /\ tasks = EmptyBag
    /\ fetches = 0
    /\ reply = Reply("none")

NextApproval ==
    \/ telegram_webhook_start(1, NULL)
    \/ /\ Len(actions) < MaxApprovalActions
       /\ \E tg \in {0, 1}, decOut \in {"json_ok", "json_no_action", "json_no_urgency"} :
             test_alert("tvl-drop", TRUE, tg, "0xp1", "ai", decOut, TRUE)
    \/ \E t \in BagToSet(tasks), sent \in BOOLEAN : test_alert_resume(t, sent)
    \/ \E tg \in TelegramIds, r \in {"yes", "no"}, id \in ActionIds :
          telegram_webhook_callback(tg, r, id)
    \/ \E t \in BagToSet(tasks) : telegram_webhook_resume(t)
    \/ \E r \in Responses, id \in ActionIds : respond_to_action(id, r)
    \/ \E tg \in TelegramIds, word \in {"/help", "/yes_", "/no_"}, id \in ActionIds :
          telegram_webhook_message(tg, Text(word, id))

SpecApproval == InitApproval /\ [][NextApproval]_vars

----------------------------------------------------------------------------
(* The scheduler.  The service has run before: an owner watches pool 0xp1
   and wallet 0xw1, pool 0xp2 is monitored without an owner, and pool
   0xp1 has the history that ten quiet cycles leave behind.                *)

Repeat(x, n) == [i \in 1 .. n |-> x]

Owner == [user_id |-> 1, username |-> NULL, wallet_address |-> "0xw1",
          phone_number |-> NULL, monitored_pool_address |-> "0xp1"]

InitMonitor ==
    /\ users = (1 :> Owner)
    /\ actions = <<>>
    /\ alert_history = <<>>
    /\ pending_actions = <<>>
    /\ pool_history = ("0xp1" :> Repeat(PoolData(1000, 100), PoolMinHistory))
    /\ wallet_portfolios = <<>>
    /\ monitored_pools = {"0xp1", "0xp2"}
    /\ monitored_wallets = {"0xw1"}
    /\ monitoring_active = FALSE
    /\ loops = [l \in 1 .. MaxLoops |-> NoLoop]
    /\ tasks = EmptyBag
    /\ fetches = 0
    /\ reply = Reply("none")

NextMonitor ==
    \/ start_monitoring
    \/ stop_monitoring
    \/ \E l \in 1 .. MaxLoops : monitor_loop_iterate(l)
    \/ \E l \in 1 .. MaxLoops, fetched \in Outcomes(PoolFetches),
          decOut \in {"json_ok", "json_no_action"} :
          monitor_loop_pool_fetched(l, fetched, "ai", decOut, TRUE)
    \/ \E l \in 1 .. MaxLoops, decOut \in {"json_ok", "json_no_action"} :
          monitor_loop_pool_sent(l, TRUE, "ai", decOut, TRUE)
    \/ \E l \in 1 .. MaxLoops, fetched \in Outcomes(WalletFetches),
          decOut \in {"json_ok", "json_no_action"} :
          monitor_loop_wallet_fetched(l, fetched, "ai", decOut, TRUE)
    \/ \E l \in 1 .. MaxLoops : monitor_loop_wallet_sent(l, TRUE)

SpecMonitor == InitMonitor /\ [][NextMonitor]_vars

(* The scheduler with the number of loops alive at once bounded by MaxAlive:
   a start that would schedule one more is left out. *)
NextCycle ==
    \/ /\ monitoring_active \/ Cardinality({l \in 1 .. MaxLoops : Alive(l)}) < MaxAlive
       /\ start_monitoring
    \/ stop_monitoring
    \/ \E l \in 1 .. MaxLoops : monitor_loop_iterate(l)
    \/ \E l \in 1 .. MaxLoops, fetched \in Outcomes(PoolFetches),
          decOut \in {"json_ok", "json_no_action"} :
          monitor_loop_pool_fetched(l, fetched, "ai", decOut, TRUE)
    \/ \E l \in 1 .. MaxLoops, decOut \in {"json_ok", "json_no_action"} :
          monitor_loop_pool_sent(l, TRUE, "ai", decOut, TRUE)
    \/ \E l \in 1 .. MaxLoops, fetched \in Outcomes(WalletFetches),
          decOut \in {"json_ok", "json_no_action"} :
          monitor_loop_wallet_fetched(l, fetched, "ai", decOut, TRUE)
    \/ \E l \in 1 .. MaxLoops : monitor_loop_wallet_sent(l, TRUE)

SpecCycle == InitMonitor /\ [][NextCycle]_vars

----------------------------------------------------------------------------
(* The history store: the scheduler together with /pool/check and
   /wallet/analyze, on histories that have reached their caps.            *)

InitHistory ==
    /\ users = (1 :> Owner)
    /\ actions = <<>>
    /\ alert_history = <<>>
    /\ pending_actions = <<>>
    /\ pool_history = ("0xp1" :> Repeat(PoolData(1000, 100), PoolCap))
    /\ wallet_portfolios = ("0xw1" :> Repeat(WalletPortfolio(1000, <<>>), WalletCap))
    /\ monitored_pools = {"0xp1"}
    /\ monitored_wallets = {"0xw1"}
    /\ monitoring_active = FALSE
    /\ loops = [l \in 1 .. MaxLoops |-> NoLoop]
    /\ tasks = EmptyBag
    /\ fetches = 0
    /\ reply = Reply("none")

NextHistory ==
    \/ NextCycle
    \/ \E tg \in {0, 1}, current_data \in PoolFetches,
          decOut \in {"json_ok", "json_no_action"} :
          check_pool_endpoint("0xP1", tg, current_data, "ai", decOut, TRUE)
    \/ \E t \in BagToSet(tasks) : check_pool_resume(t, TRUE)
    \/ \E tg \in {0, 1}, portfolio \in WalletFetches,
          decOut \in {"json_ok", "json_no_action"} :
          analyze_wallet("0xW1", tg, portfolio, "ai", decOut, TRUE)
    \/ \E t \in BagToSet(tasks) : analyze_wallet_resume(t, TRUE)

SpecHistory == InitHistory /\ [][NextHistory]_vars

----------------------------------------------------------------------------
(* Subjects entering monitoring while the scheduler runs: nothing is
   registered and no history exists at first; /pool/monitor/add,
   /wallet/monitor/add, /pool/check and /wallet/analyze act on the subjects
   the loop visits. *)

InitSubjects ==
    /\ users = <<>>
    /\ actions = <<>>
    /\ alert_history = <<>>
    /\ pending_actions = <<>>
    /\ pool_history = <<>>
    /\ wallet_portfolios = <<>>
    /\ monitored_pools = {}
    /\ monitored_wallets = {}
    /\ monitoring_active = FALSE
    /\ loops = [l \in 1 .. MaxLoops |-> NoLoop]
    /\ tasks = EmptyBag
    /\ fetches = 0
    /\ reply = Reply("none")

NextSubjects ==
    \/ (monitoring_active \/ Cardinality({l \in 1 .. MaxLoops : Alive(l)}) < MaxAlive)
           /\ start_monitoring
    \/ stop_monitoring
    \/ \E l \in 1 .. MaxLoops : monitor_loop_iterate(l)
    \/ \E l \in 1 .. MaxLoops, f \in Outcomes(PoolFetches) :
           monitor_loop_pool_fetched(l, f, "ai", "json_ok", TRUE)
    \/ \E l \in 1 .. MaxLoops, f \in Outcomes({WalletPortfolio(1000, <<>>)}) :
           monitor_loop_wallet_fetched(l, f, "ai", "json_ok", TRUE)
    \/ add_pool_monitoring("0xP1", 0)
    \/ \E t \in BagToSet(tasks), f \in Outcomes(PoolFetches) :
           add_pool_monitoring_resume(t, f)
    \/ add_wallet_monitoring("0xW1", 0)
    \/ \E t \in BagToSet(tasks), f \in Outcomes({WalletPortfolio(1000, <<>>)}) :
           add_wallet_monitoring_resume(t, f)
    \/ \E d \in PoolFetches : check_pool_endpoint("0xP1", 0, d, "ai", "json_ok", TRUE)
    \/ analyze_wallet("0xW1", 0, WalletPortfolio(1000, <<>>), "ai", "json_ok", TRUE)

SpecSubjects == InitSubjects /\ [][NextSubjects]_vars

----------------------------------------------------------------------------
(* The alert pipeline on its own: /test-alert with and without an owner,
   every outcome of the decision model, of the call and of the send.      *)

NextPipeline ==
    \/ telegram_webhook_start(1, NULL)
    \/ /\ Len(actions) < MaxApprovalActions
       /\ \E a \in {"tvl-drop", "rug-pull"}, phoneCall \in BOOLEAN,
             tg \in {0, 1, 2}, sumOut \in SummaryOutputs, decOut \in AIOutputs,
             callOk \in BOOLEAN :
             test_alert(a, phoneCall, tg, "0xp1", sumOut, decOut, callOk)
    \/ \E t \in BagToSet(tasks), sent \in BOOLEAN : test_alert_resume(t, sent)

SpecPipeline == InitApproval /\ [][NextPipeline]_vars

----------------------------------------------------------------------------
(* The detectors inside the scheduler: the histories of pool 0xp1 and of
   wallet 0xw1 are drawn from the sets below, their owner is registered,
   and one loop fetches snapshots drawn from DetectPools and DetectWallets.
   A ratio of 0 is a pool whose reserve0 is 0; a total of 0 is a wallet
   without CELO and stable coins, whose pool tokens are not in the total.  *)

DetectPools ==
    {PoolData(1000, 100), PoolData(900, 100), PoolData(850, 100),
     PoolData(800, 100), PoolData(750, 100), PoolData(1000, 130),
     PoolData(1000, 131), PoolData(1000, 60), PoolData(750, 140),
     PoolData(850, 140)}

DetectPoolHistories ==
    {Repeat(PoolData(1000, 100), PoolMinHistory - 1),
     Repeat(PoolData(1000, 100), PoolMinHistory),
     Repeat(PoolData(4000, 300), 5) \o Repeat(PoolData(1000, 100), PoolWindow),
     Repeat(PoolData(1000, 0), PoolMinHistory)}

DetectWallets ==
    {WalletPortfolio(1000, <<>>), WalletPortfolio(850, <<>>),
     WalletPortfolio(800, <<>>), WalletPortfolio(700, <<>>),
     WalletPortfolio(650, <<>>), WalletPortfolio(600, <<>>),
     WalletPortfolio(500, <<>>), WalletPortfolio(600, <<Position(50)>>),
     WalletPortfolio(1000, <<Position(50)>>)}

DetectWalletHistories ==
    {<<WalletPortfolio(1000, <<>>)>>,
     <<WalletPortfolio(1000, <<>>), WalletPortfolio(1000, <<>>)>>,
     <<WalletPortfolio(4000, <<>>), WalletPortfolio(1000, <<Position(100)>>)>>,
     <<WalletPortfolio(1000, <<>>), WalletPortfolio(0, <<Position(100)>>)>>}

InitDetect ==
    /\ users = 1 :> Owner
    /\ actions = <<>>
    /\ alert_history = <<>>
    /\ pending_actions = <<>>
    /\ pool_history \in {"0xp1" :> h : h \in DetectPoolHistories}
    /\ wallet_portfolios \in {"0xw1" :> h : h \in DetectWalletHistories}
    /\ monitored_pools = {"0xp1"}
    /\ monitored_wallets = {"0xw1"}
    /\ monitoring_active = FALSE
    /\ loops = [l \in 1 .. MaxLoops |-> NoLoop]
    /\ tasks = EmptyBag
    /\ fetches = 0
    /\ reply = Reply("none")

NextDetect ==
    \/ (monitoring_active \/ Cardinality({l \in 1 .. MaxLoops : Alive(l)}) < MaxAlive)
           /\ start_monitoring
    \/ \E l \in 1 .. MaxLoops : monitor_loop_iterate(l)
    \/ /\ fetches < MaxDetectFetches
       /\ \E l \in 1 .. MaxLoops, f \in Outcomes(DetectPools) :
             monitor_loop_pool_fetched(l, f, "ai", "json_ok", TRUE)
    \/ \E l \in 1 .. MaxLoops : monitor_loop_pool_sent(l, TRUE, "ai", "json_ok", TRUE)
    \/ /\ fetches < MaxDetectFetches
       /\ \E l \in 1 .. MaxLoops, f \in Outcomes(DetectWallets) :
             monitor_loop_wallet_fetched(l, f, "ai", "json_ok", TRUE)
    \/ \E l \in 1 .. MaxLoops : monitor_loop_wallet_sent(l, TRUE)

SpecDetect == InitDetect /\ [][NextDetect]_vars

----------------------------------------------------------------------------
(* Registration on its own: POST /users/register with every combination of
   supplied and omitted fields, and /start, for two Telegram users.        *)

RegUsernames == {NULL, "alice"}
RegWallets   == {NULL, "0xW1"}
RegPhones    == {NULL, "+6500000000"}
RegPools     == {NULL, "0xP1", "0xp2"}

NextRegister ==
    \/ \E tg \in TelegramIds, u \in RegUsernames, w \in RegWallets,
          ph \in RegPhones, p \in RegPools : register_user(tg, u, w, ph, p)
    \/ \E tg \in TelegramIds, u \in RegUsernames : telegram_webhook_start(tg, u)

SpecRegister == InitApproval /\ [][NextRegister]_vars

----------------------------------------------------------------------------
(* The scheduler over a pool with a history and no owner, one owner or two
   owners: the users table is drawn from WatcherTables.                    *)

SecondOwner == [user_id |-> 2, username |-> NULL, wallet_address |-> NULL,
                phone_number |-> NULL, monitored_pool_address |-> "0xp1"]

WatcherTables == {<<>>, 1 :> Owner, (1 :> Owner) @@ (2 :> SecondOwner)}

InitWatchers ==
    /\ users \in WatcherTables
    /\ actions = <<>>
    /\ alert_history = <<>>
    /\ pending_actions = <<>>
    /\ pool_history = ("0xp1" :> Repeat(PoolData(1000, 100), PoolMinHistory))
    /\ wallet_portfolios = <<>>
    /\ monitored_pools = {"0xp1"}
    /\ monitored_wallets = {"0xw1"}
    /\ monitoring_active = FALSE
    /\ loops = [l \in 1 .. MaxLoops |-> NoLoop]
    /\ tasks = EmptyBag
    /\ fetches = 0
    /\ reply = Reply("none")

SpecWatchers == InitWatchers /\ [][NextCycle]_vars

----------------------------------------------------------------------------
(* Wallet owners and the scheduler: wallet 0xw1 has the history two quiet
   analyses leave behind; users register their wallet by /users/register,
   by the /wallet command or by /wallet/monitor/add, writing the address
   in either letter case, and one loop watches the monitored wallets.     *)

InitOwners ==
    /\ users = <<>>
    /\ actions = <<>>
    /\ alert_history = <<>>
    /\ pending_actions = <<>>
    /\ pool_history = <<>>
    /\ wallet_portfolios = ("0xw1" :> Repeat(WalletPortfolio(1000, <<>>), WalletMinHistory))
    /\ monitored_pools = {}
    /\ monitored_wallets = {}
    /\ monitoring_active = FALSE
    /\ loops = [l \in 1 .. MaxLoops |-> NoLoop]
    /\ tasks = EmptyBag
    /\ fetches = 0
    /\ reply = Reply("none")

NextOwners ==
    \/ \E tg \in TelegramIds, w \in WalletInputs :
           register_user(tg, NULL, w, NULL, NULL)
    \/ \E tg \in TelegramIds, w \in WalletInputs : telegram_webhook_wallet(tg, w)
    \/ \E tg \in TelegramIds, w \in WalletInputs : add_wallet_monitoring(w, tg)
    \/ (monitoring_active \/ Cardinality({l \in 1 .. MaxLoops : Alive(l)}) < MaxAlive)
           /\ start_monitoring
    \/ \E l \in 1 .. MaxLoops : monitor_loop_iterate(l)
    \/ \E l \in 1 .. MaxLoops, f \in Outcomes(WalletFetches) :
           monitor_loop_wallet_fetched(l, f, "ai", "json_ok", TRUE)
    \/ \E l \in 1 .. MaxLoops : monitor_loop_wallet_sent(l, TRUE)

SpecOwners == InitOwners /\ [][NextOwners]_vars

----------------------------------------------------------------------------
(* /pool/check beside the scheduler: the history of pool 0xp1 is drawn from
   DetectPoolHistories, no wallet is monitored, and the handler and one loop
   are handed snapshots drawn from DetectPools.                            *)

InitManual ==
    /\ users = 1 :> Owner
    /\ actions = <<>>
    /\ alert_history = <<>>
    /\ pending_actions = <<>>
    /\ pool_history \in {"0xp1" :> h : h \in DetectPoolHistories}
    /\ wallet_portfolios = <<>>
    /\ monitored_pools = {"0xp1"}
    /\ monitored_wallets = {}
    /\ monitoring_active = FALSE
    /\ loops = [l \in 1 .. MaxLoops |-> NoLoop]
    /\ tasks = EmptyBag
    /\ fetches = 0
    /\ reply = Reply("none")

NextManual ==
    \/ (monitoring_active \/ Cardinality({l \in 1 .. MaxLoops : Alive(l)}) < MaxAlive)
           /\ start_monitoring
    \/ \E l \in 1 .. MaxLoops : monitor_loop_iterate(l)
    \/ /\ fetches < MaxDetectFetches
       /\ \E l \in 1 .. MaxLoops, f \in Outcomes(DetectPools) :
             monitor_loop_pool_fetched(l, f, "ai", "json_ok", TRUE)
    \/ \E l \in 1 .. MaxLoops : monitor_loop_pool_sent(l, TRUE, "ai", "json_ok", TRUE)
    \/ /\ fetches < MaxDetectFetches
       /\ \E tg \in {0, 1}, current_data \in DetectPools :
             check_pool_endpoint("0xP1", tg, current_data, "ai", "json_ok", TRUE)
    \/ \E t \in BagToSet(tasks) : check_pool_resume(t, TRUE)

SpecManual == InitManual /\ [][NextManual]_vars

----------------------------------------------------------------------------
(* main_local.py, the build without Telegram: the monitoring endpoints.
   Its get_pool_data and get_wallet_portfolio catch every exception and
   return mock data, so a fetch always yields a snapshot.                  *)

LocalPoolFetches   == PoolFetches \cup {PoolData(2000, 100)}
LocalWalletFetches == WalletFetches

\* POST /monitor/start of main_local.py.
start_monitoring_local ==
    /\ IF monitoring_active
       THEN /\ reply' = Reply("already_running")
            /\ UNCHANGED monitoring_active
       ELSE /\ monitoring_active' = TRUE
            /\ reply' = Reply("started")
    /\ UNCHANGED <<dbVars, pending_actions, historyVars, monitored_pools,
                   monitored_wallets, loops, tasks, fetches>>

\* POST /monitor/stop of main_local.py.
stop_monitoring_local ==
    /\ monitoring_active' = FALSE
    /\ reply' = Reply("stopped")
    /\ UNCHANGED <<dbVars, pending_actions, historyVars, monitored_pools,
                   monitored_wallets, loops, tasks, fetches>>

\* POST /pool/monitor/add of main_local.py up to its await of get_pool_data,
\* or to the reply when the pool has a history entry.
add_pool_monitoring_local(poolAddress) ==
    LET pool_address == Lower(poolAddress) IN
    /\ monitored_pools' = monitored_pools \cup {pool_address}
    /\ IF pool_address \notin DOMAIN pool_history
       THEN /\ CanSuspend
            /\ Suspend([kind |-> "add_pool_local", pool_address |-> pool_address])
            /\ UNCHANGED reply
       ELSE /\ reply' = Reply("added")
            /\ UNCHANGED tasks
    /\ UNCHANGED <<dbVars, pending_actions, historyVars, monitored_wallets,
                   monitoring_active, loops, fetches>>

\* The same handler when get_pool_data has returned.
add_pool_monitoring_local_resume(t, pool_data) ==
    /\ t \in Suspended("add_pool_local")
    /\ fetches < MaxFetches
    /\ fetches' = fetches + 1
    /\ pool_history' = Put(pool_history, t.pool_address, <<pool_data>>)
    /\ reply' = Reply("added")
    /\ Finish(t)
    /\ UNCHANGED <<dbVars, pending_actions, wallet_portfolios, monitorVars>>

\* POST /pool/monitor/remove of main_local.py.
remove_pool_monitoring_local(poolAddress) ==
    /\ monitored_pools' = monitored_pools \ {Lower(poolAddress)}
    /\ reply' = Reply("removed")
    /\ UNCHANGED <<dbVars, pending_actions, historyVars, monitored_wallets,
                   monitoring_active, loops, tasks, fetches>>

\* POST /wallet/monitor/add of main_local.py up to its await of
\* get_wallet_portfolio, or to the reply when the wallet has a history entry.
add_wallet_monitoring_local(walletAddress) ==
    LET wallet_address == Lower(walletAddress) IN
    /\ monitored_wallets' = monitored_wallets \cup {wallet_address}
    /\ IF wallet_address \notin DOMAIN wallet_portfolios
       THEN /\ CanSuspend
            /\ Suspend([kind |-> "add_wallet_local",
                        wallet_address |-> wallet_address])
            /\ UNCHANGED reply
       ELSE /\ reply' = Reply("added")
            /\ UNCHANGED tasks
    /\ UNCHANGED <<dbVars, pending_actions, historyVars, monitored_pools,
                   monitoring_active, loops, fetches>>

\* The same handler when get_wallet_portfolio has returned.
add_wallet_monitoring_local_resume(t, portfolio) ==
    /\ t \in Suspended("add_wallet_local")
    /\ fetches < MaxFetches
    /\ fetches' = fetches + 1
    /\ wallet_portfolios' = Put(wallet_portfolios, t.wallet_address, <<portfolio>>)
    /\ reply' = Reply("added")
    /\ Finish(t)
    /\ UNCHANGED <<dbVars, pending_actions, pool_history, monitorVars>>

\* POST /wallet/monitor/remove of main_local.py.
remove_wallet_monitoring_local(walletAddress) ==
    /\ monitored_wallets' = monitored_wallets \ {Lower(walletAddress)}
    /\ reply' = Reply("removed")
    /\ UNCHANGED <<dbVars, pending_actions, historyVars, monitored_pools,
                   monitoring_active, loops, tasks, fetches>>

NextLocal ==
    \/ start_monitoring_local
    \/ stop_monitoring_local
    \/ \E a \in {"0xP1", "0xp2"} : add_pool_monitoring_local(a)
    \/ \E t \in BagToSet(tasks), d \in LocalPoolFetches :
           add_pool_monitoring_local_resume(t, d)
    \/ \E a \in {"0xP1", "0xp2"} : remove_pool_monitoring_local(a)
    \/ add_wallet_monitoring_local("0xW1")
    \/ \E t \in BagToSet(tasks), f \in LocalWalletFetches :
           add_wallet_monitoring_local_resume(t, f)
    \/ remove_wallet_monitoring_local("0xW1")

SpecLocal == InitSubjects /\ [][NextLocal]_vars

----------------------------------------------------------------------------
(* Claims *)

LoopIds == 1 .. MaxLoops
InCycle(l) == loops[l].pc \in {"pool_fetch", "pool_send", "wallet_fetch", "wallet_send"}
AtLoopCondition(l) == loops[l].pc \in {"scheduled", "sleep"}

\* C1: once an Action's status is rejected or executed, no later response,
\* by callback or by the REST endpoint, changes its status.
C1_TerminalStatusIsFinal ==
    [][\A i \in DOMAIN actions :
          actions[i].status \in {"rejected", "executed"}
              => actions'[i].status = actions[i].status]_vars

\* C2: a response to an id that is not in pending_actions leaves the actions
\* table as it was, and the REST endpoint answers it "Action not found".
C2_NotPendingIsNotFound ==
    [][\A id \in ActionIds, r \in Responses :
          (/\ id \notin DOMAIN pending_actions
           /\ \/ respond_to_action(id, r)
              \/ \E tg \in TelegramIds : telegram_webhook_callback(tg, r, id))
              => /\ actions' = actions
                 /\ respond_to_action(id, r) => reply' = Reply("Action not found")]_vars

\* C3: no step takes a pending Action to a state in which its status is
\* approved: the states between steps are what interleaved operations see,
\* and what is left when the responding operation has ended.
C3_ApprovedNeverObservable ==
    [][\A i \in DOMAIN actions :
          actions[i].status = "pending" => actions'[i].status # "approved"]_vars

\* C4: when a response to an id in pending_actions has been processed, by
\* the REST endpoint or by the webhook, the id is no longer in
\* pending_actions.
C4_ResponseRemovesPending ==
    [][/\ \A id \in ActionIds, r \in Responses :
             (id \in DOMAIN pending_actions /\ respond_to_action(id, r))
                 => id \notin DOMAIN pending_actions'
       /\ \A t \in BagToSet(tasks) :
             telegram_webhook_resume(t)
                 => t.action_id \notin DOMAIN pending_actions']_vars

\* C5: at most one Action with status pending per (subject, alert type).
C5_OnePendingPerSubjectAndType ==
    \A i, j \in DOMAIN pending_actions :
        (/\ i # j
         /\ actions[i].status = "pending"
         /\ actions[j].status = "pending"
         /\ pending_actions[i].context = pending_actions[j].context)
            => pending_actions[i].alert.alertType # pending_actions[j].alert.alertType

\* C6: no two monitor loops run cycles at the same time.
C6_SingleLoopInCycle ==
    Cardinality({l \in LoopIds : InCycle(l)}) <= 1

\* C7: /monitor/start while the flag is set replies already_running, keeps
\* the flag and schedules nothing; /monitor/stop while the flag is clear
\* keeps it clear and changes nothing else.
C7_StartStopIdempotent ==
    [][/\ (monitoring_active /\ start_monitoring)
             => /\ reply' = Reply("already_running")
                /\ monitoring_active'
                /\ loops' = loops
       /\ (~monitoring_active /\ stop_monitoring)
             => /\ ~monitoring_active'
                /\ UNCHANGED <<users, actions, alert_history, pending_actions,
                               pool_history, wallet_portfolios, monitored_pools,
                               monitored_wallets, loops, tasks>>]_vars

C7_Witness ==
    /\ reply = Reply("already_running")
    /\ monitoring_active
    /\ Cardinality({l \in LoopIds : Alive(l)}) = 1

\* C8: a cycle that reaches its sleep has processed every pool and wallet it
\* listed, whether or not one of them raised; a loop ends only at its loop
\* condition, and there it ends exactly when monitoring_active is false.
C8_CycleSurvivesErrors ==
    [][\A l \in LoopIds :
          /\ loops'[l].pc = "sleep" => loops'[l].visited = loops'[l].cycle
          /\ (Alive(l) /\ loops'[l].pc = "done") => AtLoopCondition(l)
          /\ (AtLoopCondition(l) /\ loops'[l].pc # loops[l].pc)
                => (loops'[l].pc = "done" <=> ~monitoring_active)]_vars

C8_Witness ==
    \E l \in LoopIds :
        /\ loops[l].pc = "sleep"
        /\ loops[l].raised
        /\ loops[l].visited = loops[l].cycle
        /\ Cardinality(loops[l].cycle) = 3

\* C9: while monitoring_active stays false, a loop inside a cycle goes on
\* with the subjects of that cycle and reaches its sleep with all of them
\* processed, and a loop at its loop condition exits.
C9_StopTakesEffectAtBoundary ==
    [][\A l \in LoopIds :
          (~monitoring_active /\ ~monitoring_active' /\ loops'[l] # loops[l])
             => /\ AtLoopCondition(l) => loops'[l].pc = "done"
                /\ InCycle(l) =>
                     /\ loops'[l].pc \in {"pool_fetch", "pool_send",
                                          "wallet_fetch", "wallet_send", "sleep"}
                     /\ loops[l].visited \subseteq loops'[l].visited
                     /\ loops'[l].pools \subseteq loops[l].pools
                     /\ loops[l].phase = "wallets"
                            => loops'[l].wallets \subseteq loops[l].wallets
                     /\ (loops'[l].pc = "sleep" /\ loops[l].stopped)
                            => loops'[l].visited = loops'[l].cycle]_vars

C9_Witness ==
    \E l \in LoopIds :
        /\ ~monitoring_active
        /\ loops[l].pc = "sleep"
        /\ loops[l].stopped
        /\ loops[l].visited = loops[l].cycle
        /\ Cardinality(loops[l].cycle) = 3

\* C10: a history with no append in progress holds at most 100 pool
\* snapshots, or 50 wallet snapshots.
C10_HistoryWithinCap ==
    /\ \A p \in DOMAIN pool_history :
          (\A t \in Suspended("check_pool") : t.pool_address # p)
              => Len(pool_history[p]) <= PoolCap
    /\ \A w \in DOMAIN wallet_portfolios :
          Len(wallet_portfolios[w]) <= WalletCap

\* C11: a step loses no snapshot of a history: what a history held stays in
\* it, in order and at its front, except an oldest entry trimmed off a
\* history over its cap.
Kept(h, g, cap) ==
    \E k \in {0, 1} :
        /\ k = 1 => Len(h) >= cap
        /\ Len(g) >= Len(h) - k
        /\ \A i \in 1 .. (Len(h) - k) : g[i] = h[i + k]
C11_NoSnapshotLost ==
    [][/\ \A p \in DOMAIN pool_history :
             /\ p \in DOMAIN pool_history'
             /\ Kept(pool_history[p], pool_history'[p], PoolCap)
       /\ \A w \in DOMAIN wallet_portfolios :
             /\ w \in DOMAIN wallet_portfolios'
             /\ Kept(wallet_portfolios[w], wallet_portfolios'[w], WalletCap)]_vars

\* C12: an Action persisted for a registered owner is, once the pipeline
\* that created it has ended, in pending_actions while its status is pending.
PipelineRunning(i) ==
    \/ \E t \in BagToSet(tasks) :
          t.kind \in {"test_alert", "check_pool", "analyze_wallet"}
              /\ t.frame.action_id = i
    \/ \E l \in LoopIds : loops[l].frame # <<>> /\ loops[l].frame[1].action_id = i
C12_PersistedActionIsIndexed ==
    \A i \in DOMAIN actions :
        (actions[i].status = "pending" /\ ~PipelineRunning(i))
            => i \in DOMAIN pending_actions

\* C13: a pipeline run with no telegram id, or with an id no user has,
\* returns the alert and leaves actions, alert_history and pending_actions
\* as they were.
Unowned(tg) == tg = 0 \/ tg \notin DOMAIN users
C13_UnownedAlertOnlyReturned ==
    [][\A a \in {"tvl-drop", "rug-pull"}, phoneCall \in BOOLEAN,
          tg \in {0, 1, 2}, decOut \in AIOutputs, callOk \in BOOLEAN :
          (Unowned(tg) /\ test_alert(a, phoneCall, tg, "0xp1", "ai", decOut, callOk))
              => /\ reply' = AlertResponse(generate_fake_alert(a),
                                           phoneCall /\ callOk, FALSE)
                 /\ UNCHANGED <<actions, alert_history, pending_actions, tasks>>]_vars

C13_Witness ==
    /\ reply.status = "AlertResponse"
    /\ reply.alert = "wallet_value_drop"
    /\ users # <<>>
    /\ actions = <<>>
    /\ alert_history = <<>>
    /\ pending_actions = <<>>

\* C14: when the send of the request fails, the Action stays pending and
\* indexed and the alert-history row is written with telegram_sent false;
\* when the call fails, callInitiated is false in the audit row and in the
\* response, and the pipeline does what it does when the call succeeds.
LastRow(tbl) == tbl[Len(tbl)]
C14_FailuresAreRecorded ==
    [][/\ \A t \in BagToSet(tasks), sent \in BOOLEAN :
             test_alert_resume(t, sent)
                 => /\ actions'[t.frame.action_id].status = "pending"
                    /\ t.frame.action_id \in DOMAIN pending_actions'
                    /\ Len(alert_history') = Len(alert_history) + 1
                    /\ LastRow(alert_history').alert_type = t.frame.alert.alertType
                    /\ LastRow(alert_history').telegram_sent = sent
                    /\ LastRow(alert_history').call_initiated = t.frame.call_initiated
                    /\ reply'.telegramSent = sent
                    /\ reply'.callInitiated = t.frame.call_initiated
       /\ \A a \in {"tvl-drop", "rug-pull"}, tg \in {0, 1, 2}, decOut \in AIOutputs :
             test_alert(a, TRUE, tg, "0xp1", "ai", decOut, FALSE)
                 => LET failed == process_alert_begin(generate_fake_alert(a),
                                      Context("0xp1", ""), tg, TRUE, "ai", decOut, FALSE)
                        called == process_alert_begin(generate_fake_alert(a),
                                      Context("0xp1", ""), tg, TRUE, "ai", decOut, TRUE)
                    IN  /\ failed.kind = called.kind
                        /\ failed.actions = called.actions
                        /\ failed.kind = "return" => ~reply'.callInitiated
                        /\ failed.kind = "suspend" =>
                              ~failed.frame[1].call_initiated]_vars

C14_Witness ==
    /\ alert_history # <<>>
    /\ ~LastRow(alert_history).telegram_sent
    /\ ~LastRow(alert_history).call_initiated
    /\ reply.status = "AlertResponse"
    /\ ~reply.telegramSent
    /\ \E i \in DOMAIN pending_actions : actions[i].status = "pending"

PoolAt(l) == HistoryOf(pool_history, loops[l].cur)
WalletAt(l) == HistoryOf(wallet_portfolios, loops[l].cur)

\* C15: on a history of fewer than 10 entries detect_pool_anomalies returns
\* None for every snapshot, and the loop that fetched the snapshot starts no
\* alert pipeline.
C15_ShortHistoryNoAlert ==
    [][/\ \A p \in DOMAIN pool_history, d \in DetectPools :
             Len(pool_history[p]) < 10
                 => detect_pool_anomalies(d, pool_history[p]) = NoAlert
       /\ \A l \in LoopIds :
             (loops[l].pc = "pool_fetch" /\ Len(PoolAt(l)) < 10)
                 => /\ loops'[l].pc # "pool_send"
                    /\ actions' = actions]_vars

C15_Witness ==
    /\ \E l \in LoopIds : loops[l].pc = "wallet_fetch"
    /\ actions = <<>>
    /\ Len(pool_history["0xp1"]) = 10
    /\ pool_history["0xp1"][9] = PoolData(1000, 100)
    /\ pool_history["0xp1"][10] = PoolData(750, 140)

(* The rules as the claims word them, over whole numbers: with S the sum
   of the last n = min(20, len) values and x the current one, the change
   (x - S/n) / (S/n) * 100 is ((x * n - S) * 100) / S.                     *)
MinOf(a, b) == IF a < b THEN a ELSE b
Window(h) == [i \in 1 .. MinOf(20, Len(h)) |-> h[Len(h) - MinOf(20, Len(h)) + i]]
SumTvl(h) == LET W == Window(h) IN SeqSum([i \in 1 .. Len(W) |-> W[i].tvl])
SumRatio(h) == LET W == Window(h) IN SeqSum([i \in 1 .. Len(W) |-> W[i].ratio])
\* with S the sum and n the length of the window
TvlChangeNum(d, S, n) == (d.tvl * n - S) * 100
RatioChangeNum(d, S, n) == Abs((d.ratio * n - S) * 100)
ValueChangeNum(w, h) == (w.totalValueUSD - h[Len(h)].totalValueUSD) * 100
\* the alert's metric is the fraction num / den
MetricIs(a, num, den) ==
    \/ a.metric = <<num, den>>
    \/ a.metric[1] * den = num * a.metric[2]
IsDrop(a, severity, alertType) == a.severity = severity /\ a.alertType = alertType

\* C16: on a history of at least 10 entries detect_pool_anomalies returns
\* CRITICAL pool_tvl_drop when the TVL change against the window mean is
\* below -20%, HIGH pool_tvl_drop when it is below -10% but not below -20%,
\* with the change as its metric.
C16_TvlDropRule ==
    \A p \in DOMAIN pool_history :
        LET h == pool_history[p]
            n == MinOf(20, Len(h))
            S == SumTvl(h)
        IN  (Len(h) >= 10 /\ S > 0) =>
            \A d \in DetectPools :
                LET r == detect_pool_anomalies(d, h)
                    c == TvlChangeNum(d, S, n)
                IN  /\ c < -20 * S
                        => /\ IsDrop(r, CRITICAL, "pool_tvl_drop")
                           /\ MetricIs(r, c, S)
                    /\ (c >= -20 * S /\ c < -10 * S)
                        => /\ IsDrop(r, HIGH, "pool_tvl_drop")
                           /\ MetricIs(r, c, S)

\* C17: on a history of at least 10 entries, a ratio more than 30% away from
\* the window's mean ratio gives HIGH pool_imbalance when no TVL-drop rule
\* fired, and the TVL-drop alert when one did.
C17_ImbalanceAfterTvlDrop ==
    \A p \in DOMAIN pool_history :
        LET h == pool_history[p]
            n == MinOf(20, Len(h))
            S == SumTvl(h)
            R == SumRatio(h)
        IN  (Len(h) >= 10 /\ S > 0 /\ R > 0) =>
            \A d \in DetectPools :
                LET r == detect_pool_anomalies(d, h)
                    tvlFired == TvlChangeNum(d, S, n) < -10 * S
                    dev == RatioChangeNum(d, R, n)
                IN  dev > 30 * R
                        => IF tvlFired
                           THEN r.alertType = "pool_tvl_drop"
                           ELSE /\ IsDrop(r, HIGH, "pool_imbalance")
                                /\ MetricIs(r, dev, R)

C17_Witness ==
    \E l \in LoopIds :
        /\ loops[l].pc = "pool_send"
        /\ loops[l].current = <<PoolData(850, 140)>>
        /\ IsDrop(loops[l].alert[1], HIGH, "pool_tvl_drop")
        /\ Len(PoolAt(l)) = 25

\* C18: detect_wallet_risks returns None on fewer than 2 entries; otherwise
\* the change is taken against the last entry alone: CRITICAL
\* wallet_value_drop below -30%, HIGH wallet_value_drop below -15% but not
\* below -30%, and no wallet_value_drop otherwise.
C18_WalletDropRule ==
    \A a \in DOMAIN wallet_portfolios, w \in DetectWallets :
        LET h == wallet_portfolios[a]
            r == detect_wallet_risks(w, h)
            prevTotal == h[Len(h)].totalValueUSD
        IN  /\ Len(h) < 2 => r = NoAlert
            /\ (Len(h) >= 2 /\ prevTotal > 0)
                  => /\ ValueChangeNum(w, h) < -30 * prevTotal
                          => /\ IsDrop(r, CRITICAL, "wallet_value_drop")
                             /\ MetricIs(r, ValueChangeNum(w, h), prevTotal)
                     /\ (/\ ValueChangeNum(w, h) >= -30 * prevTotal
                         /\ ValueChangeNum(w, h) < -15 * prevTotal)
                          => /\ IsDrop(r, HIGH, "wallet_value_drop")
                             /\ MetricIs(r, ValueChangeNum(w, h), prevTotal)
                     /\ ValueChangeNum(w, h) >= -15 * prevTotal
                          => r.alertType # "wallet_value_drop"

C18_Witness ==
    \E l \in LoopIds :
        /\ loops[l].pc = "wallet_send"
        /\ WalletAt(l)[1].totalValueUSD = 4000
        /\ WalletAt(l)[Len(WalletAt(l))].totalValueUSD = 1000
        /\ loops[l].current[1].totalValueUSD = 800
        /\ IsDrop(loops[l].alert[1], HIGH, "wallet_value_drop")

\* C19 as the spec words it: with exactly one prior snapshot of total 1000,
\* a current total of 600 gives HIGH wallet_value_drop with valueChange -40,
\* 650 gives HIGH, 500 gives CRITICAL.
C19_OnePriorSnapshotExample ==
    \A a \in DOMAIN wallet_portfolios :
        LET h == wallet_portfolios[a] IN
        (Len(h) = 1 /\ h[1].totalValueUSD = 1000)
            => /\ IsDrop(detect_wallet_risks(WalletPortfolio(600, <<>>), h),
                         HIGH, "wallet_value_drop")
               /\ MetricIs(detect_wallet_risks(WalletPortfolio(600, <<>>), h), -40, 1)
               /\ IsDrop(detect_wallet_risks(WalletPortfolio(650, <<>>), h),
                         HIGH, "wallet_value_drop")
               /\ IsDrop(detect_wallet_risks(WalletPortfolio(500, <<>>), h),
                         CRITICAL, "wallet_value_drop")

\* C19 amended: with exactly one prior snapshot detect_wallet_risks returns
\* None; with two or more whose last total is 1000, current totals of 600,
\* 650 and 500 all give CRITICAL wallet_value_drop, with valueChange -40,
\* -35 and -50.
C19_TwoSnapshotsExample ==
    \A a \in DOMAIN wallet_portfolios :
        LET h == wallet_portfolios[a]
            at(total) == detect_wallet_risks(WalletPortfolio(total, <<>>), h)
        IN  /\ Len(h) = 1 => \A w \in DetectWallets : detect_wallet_risks(w, h) = NoAlert
            /\ (Len(h) >= 2 /\ h[Len(h)].totalValueUSD = 1000)
                  => /\ IsDrop(at(600), CRITICAL, "wallet_value_drop")
                     /\ MetricIs(at(600), -40, 1)
                     /\ IsDrop(at(650), CRITICAL, "wallet_value_drop")
                     /\ MetricIs(at(650), -35, 1)
                     /\ IsDrop(at(500), CRITICAL, "wallet_value_drop")
                     /\ MetricIs(at(500), -50, 1)

C19_Witness ==
    \E l \in LoopIds :
        /\ loops[l].pc = "wallet_send"
        /\ Len(WalletAt(l)) = 2
        /\ WalletAt(l)[2] = WalletPortfolio(1000, <<>>)
        /\ loops[l].current = <<WalletPortfolio(600, <<>>)>>
        /\ IsDrop(loops[l].alert[1], CRITICAL, "wallet_value_drop")

\* C20: where the baseline is zero (the window's mean TVL or mean ratio, the
\* previous wallet total) the detectors return None and raise nothing.
C20_ZeroBaselineNoSignal ==
    /\ \A p \in DOMAIN pool_history, d \in DetectPools :
          LET h == pool_history[p] IN
          (Len(h) >= 10 /\ (SumTvl(h) = 0 \/ SumRatio(h) = 0))
              => detect_pool_anomalies(d, h) = NoAlert
    /\ \A a \in DOMAIN wallet_portfolios, w \in DetectWallets :
          LET h == wallet_portfolios[a] IN
          (Len(h) >= 2 /\ h[Len(h)].totalValueUSD = 0)
              => detect_wallet_risks(w, h) = NoAlert

\* What the decision model can answer that is not a JSON object with the
\* four fields.
MalformedOutputs == {"not_json", "json_no_action", "json_no_urgency"}

\* C21: when the decision model's output is not JSON, or is JSON without one
\* of the four fields, the decision the pipeline works with is action
\* "Monitor Situation", reasoning "{severity} alert triggered", risk "Situation
\* may worsen", urgency "immediate" for CRITICAL and "soon" otherwise.
C21_MalformedOutputGivesFallback ==
    [][\A a \in {"tvl-drop", "rug-pull", "imbalance"}, phoneCall \in BOOLEAN,
          tg \in {0, 1, 2}, decOut \in MalformedOutputs, callOk \in BOOLEAN :
          (~Unowned(tg) /\ test_alert(a, phoneCall, tg, "0xp1", "ai", decOut, callOk))
              => \E t \in BagToSet(tasks') :
                    /\ t.kind = "test_alert"
                    /\ t.frame.action_id = Len(actions')
                    /\ t.frame.action =
                         [action |-> "Monitor Situation",
                          reasoning |-> <<generate_fake_alert(a).severity,
                                          "alert triggered">>,
                          urgency |-> IF generate_fake_alert(a).severity = CRITICAL
                                      THEN "immediate" ELSE "soon",
                          risk_if_ignored |-> "Situation may worsen"]]_vars

\* C22: for an alert with a registered owner, whatever fails in the summary
\* call or in the decision call (the model raising, or answering with
\* malformed output), the pipeline persists the Action and reaches the send
\* of the request with a summary and a decision of four fields; a failed
\* summary is "{severity} Alert: {message}".
C22_AIFailureNeverAborts ==
    [][\A a \in {"tvl-drop", "rug-pull"}, phoneCall \in BOOLEAN, tg \in {1, 2},
          sumOut \in SummaryOutputs, decOut \in AIOutputs, callOk \in BOOLEAN :
          (/\ ~Unowned(tg)
           /\ sumOut = "raise" \/ decOut # "json_ok"
           /\ test_alert(a, phoneCall, tg, "0xp1", sumOut, decOut, callOk))
              => /\ Len(actions') = Len(actions) + 1
                 /\ \E t \in BagToSet(tasks') :
                       /\ t.kind = "test_alert"
                       /\ t.frame.action_id = Len(actions')
                       /\ DOMAIN t.frame.action =
                            {"action", "reasoning", "urgency", "risk_if_ignored"}
                       /\ sumOut = "raise" =>
                            t.frame.ai_summary =
                                <<generate_fake_alert(a).severity, "Alert:",
                                  generate_fake_alert(a).alertType>>]_vars

C24_MutatedAtMostTwice ==
    [][\A i \in DOMAIN actions :
          /\ i \in DOMAIN actions'
          /\ actions'[i] # actions[i]
                => \/ /\ actions[i].status = "pending"
                      /\ actions[i].responded_at = NULL
                      /\ actions'[i].status \in {"approved", "rejected", "executed"}
                   \/ /\ actions[i].status = "approved"
                      /\ actions[i].executed_at = NULL
                      /\ actions'[i].status = "executed"]_vars

\* C25: a response handled while the pipeline that created a pending Action
\* is still at the send of its request finds the id in pending_actions, and
\* a "yes" among them takes the Action out of pending_actions with status
\* executed once both handlers have ended.
C25_EarlyResponseFindsPending ==
    [][\A id \in DOMAIN actions, r \in Responses :
          (/\ actions[id].status = "pending"
           /\ PipelineRunning(id)
           /\ \/ respond_to_action(id, r)
              \/ \E tg \in TelegramIds : telegram_webhook_callback(tg, r, id))
              => /\ id \in DOMAIN pending_actions
                 /\ Lower(r) = "yes" =>
                       \/ actions'[id].status = "executed"
                       \/ \E t \in BagToSet(tasks') :
                             t.kind = "telegram_webhook" /\ t.action_id = id]_vars

\* C26: when a loop's fetch of a subject returns a snapshot, the detector's
\* verdict is the one on the history held before the snapshot, and the step
\* either starts the alert pipeline, leaving the history as it is, or
\* appends the snapshot once; when the last owner's pipeline has ended the
\* snapshot is appended once.
C26_FetchedSnapshotAppendedOnce ==
    [][\A l \in LoopIds, decOut \in {"json_ok", "json_no_action"} :
          /\ \A f \in Outcomes(PoolFetches) \ {Raised} :
                monitor_loop_pool_fetched(l, f, "ai", decOut, TRUE)
                    => \/ /\ loops'[l].pc = "pool_send"
                          /\ loops'[l].alert =
                                <<detect_pool_anomalies(f[1], PoolAt(l))>>
                          /\ HistoryOf(pool_history', loops[l].cur) = PoolAt(l)
                       \/ HistoryOf(pool_history', loops[l].cur) =
                              Trim(Append(PoolAt(l), f[1]), PoolCap)
          /\ \A f \in Outcomes(WalletFetches) \ {Raised} :
                monitor_loop_wallet_fetched(l, f, "ai", decOut, TRUE)
                    => \/ /\ loops'[l].pc = "wallet_send"
                          /\ loops'[l].alert =
                                <<detect_wallet_risks(f[1], WalletAt(l))>>
                          /\ HistoryOf(wallet_portfolios', loops[l].cur) = WalletAt(l)
                       \/ HistoryOf(wallet_portfolios', loops[l].cur) =
                              Trim(Append(WalletAt(l), f[1]), WalletCap)
          /\ monitor_loop_pool_sent(l, TRUE, "ai", decOut, TRUE)
                => \/ loops'[l].pc = "pool_send"
                   \/ HistoryOf(pool_history', loops[l].cur) =
                          Trim(Append(PoolAt(l), loops[l].current[1]), PoolCap)
          /\ monitor_loop_wallet_sent(l, TRUE)
                => HistoryOf(wallet_portfolios', loops[l].cur) =
                       Trim(Append(WalletAt(l), loops[l].current[1]), WalletCap)]_vars

\* C27: when the detector returns an alert for the snapshot a loop fetched
\* of a pool, the loop runs the alert pipeline for it (summary, decision and
\* phone call, up to the send of a request), however many users watch the
\* pool.
C27_PoolAlertRunsPipeline ==
    [][\A l \in LoopIds, f \in Outcomes(PoolFetches) \ {Raised} :
          (/\ IsAlert(detect_pool_anomalies(f[1], PoolAt(l)))
           /\ monitor_loop_pool_fetched(l, f, "ai", "json_ok", TRUE))
              => /\ loops'[l].pc = "pool_send"
                 /\ loops'[l].frame[1].alert =
                        detect_pool_anomalies(f[1], PoolAt(l))
                 /\ loops'[l].frame[1].action = generate_action_decision(
                        detect_pool_anomalies(f[1], PoolAt(l)), "json_ok")
                 /\ loops'[l].frame[1].call_initiated]_vars

\* C28: a text "/yes_<id>" or "/no_<id>" for a pending Action in
\* pending_actions does what the button with the same data does: the
\* Action's status becomes approved (to be executed) or rejected and the
\* response is recorded.
C28_TextCommandActsAsButton ==
    [][\A tg \in TelegramIds, id \in DOMAIN pending_actions, r \in {"yes", "no"} :
          (/\ actions[id].status = "pending"
           /\ telegram_webhook_message(tg, Text(IF r = "yes" THEN "/yes_" ELSE "/no_", id)))
              => /\ actions'[id].status = IF r = "yes" THEN "approved" ELSE "rejected"
                 /\ actions'[id].user_response = r
                 /\ \E t \in BagToSet(tasks') :
                       t.kind = "telegram_webhook" /\ t.action_id = id]_vars

\* C29: a callback for an Action in pending_actions records the response
\* text and its time on the Action, and the confirmation the handler then
\* sends goes to the user the Action was created for, whoever sent the
\* callback.
C29_ConfirmationGoesToOwner ==
    [][\A tg \in TelegramIds, r \in {"yes", "no"}, id \in DOMAIN pending_actions :
          telegram_webhook_callback(tg, r, id)
              => /\ actions'[id].user_response = r
                 /\ actions'[id].responded_at = SET
                 /\ \E t \in BagToSet(tasks') :
                       /\ CopiesIn(t, tasks') > CopiesIn(t, tasks)
                       /\ t.kind = "telegram_webhook"
                       /\ t.action_id = id
                       \* the recipient of the confirmation
                       /\ t.telegram_id \in DOMAIN users
                       /\ users[t.telegram_id].user_id = actions[id].user_id]_vars

\* C30: when the send of an Action's request returned a message id, the
\* Action's row holds it: telegram_message_id is not NULL once the pipeline
\* has ended.
C30_MessageIdRecorded ==
    [][\A t \in BagToSet(tasks) :
          test_alert_resume(t, TRUE)
              => /\ LastRow(alert_history').telegram_sent
                 /\ actions'[t.frame.action_id].telegram_message_id # NULL]_vars

\* C31: on a history of at least 2 entries, a current liquidity position
\* whose protocol had a position of positive value in the last snapshot and
\* whose value fell by more than 10% makes detect_wallet_risks return MEDIUM
\* impermanent_loss when no wallet_value_drop rule fired, and the
\* wallet_value_drop alert when one did.
C31_ImpermanentLossAfterValueDrop ==
    \A a \in DOMAIN wallet_portfolios, w \in DetectWallets :
        LET h == wallet_portfolios[a]
            r == detect_wallet_risks(w, h)
            prev == h[Len(h)]
            valueFired == /\ prev.totalValueUSD > 0
                          /\ ValueChangeNum(w, h) < -15 * prev.totalValueUSD
        IN  Len(h) >= 2 =>
            \A i \in 1 .. Len(w.positions), j \in 1 .. Len(prev.positions) :
                (/\ prev.positions[j].protocol = w.positions[i].protocol
                 /\ prev.positions[j].value > 0
                 /\ (w.positions[i].value - prev.positions[j].value) * 100
                        < -10 * prev.positions[j].value)
                    => IF valueFired
                       THEN r.alertType = "wallet_value_drop"
                       ELSE /\ IsDrop(r, MEDIUM, "impermanent_loss")
                            /\ MetricIs(r, (w.positions[i].value
                                            - prev.positions[j].value) * 100,
                                        prev.positions[j].value)

\* C33: when the detector returns an alert for a monitored wallet that some
\* user registered, in whatever letter case, the loop's pipeline saves an
\* Action for that user and goes on to send the request.
C33_OwnerFoundWhateverCase ==
    [][\A l \in LoopIds, f \in Outcomes(WalletFetches) \ {Raised} :
          (/\ IsAlert(detect_wallet_risks(f[1], WalletAt(l)))
           /\ \E tg \in DOMAIN users :
                 LowerOrNull(users[tg].wallet_address) = loops[l].cur
           /\ monitor_loop_wallet_fetched(l, f, "ai", "json_ok", TRUE))
              => /\ loops'[l].pc = "wallet_send"
                 /\ Len(actions') = Len(actions) + 1
                 /\ \E tg \in DOMAIN users :
                       /\ LowerOrNull(users[tg].wallet_address) = loops[l].cur
                       /\ LastRow(actions').user_id = users[tg].user_id]_vars

\* C34: a callback whose sender is not the user an Action was created for
\* changes neither the Action's row nor pending_actions, and starts no
\* confirmation and no execution.
IsOwner(tg, id) == tg \in DOMAIN users /\ users[tg].user_id = actions[id].user_id
C34_OnlyOwnerResolves ==
    [][\A tg \in TelegramIds, r \in {"yes", "no"}, id \in DOMAIN actions :
          (~IsOwner(tg, id) /\ telegram_webhook_callback(tg, r, id))
              => /\ actions'[id] = actions[id]
                 /\ pending_actions' = pending_actions
                 /\ tasks' = tasks]_vars

\* C35: an Action has executed_at set exactly when its status is executed,
\* and an executed Action has responded_at set and a response of yes.
C35_ExecutedFieldsAgree ==
    \A i \in DOMAIN actions :
        /\ actions[i].executed_at # NULL <=> actions[i].status = "executed"
        /\ actions[i].status = "executed"
              => /\ actions[i].responded_at # NULL
                 /\ actions[i].user_response # NULL
                 /\ Lower(actions[i].user_response) = "yes"

\* C36: every id in pending_actions is the id of a row of the actions table
\* whose status is pending, except while the handler of a response to it is
\* between its update and its removal of the id.
C36_PendingIndexIsPending ==
    \A id \in DOMAIN pending_actions :
        /\ id \in DOMAIN actions
        /\ \/ actions[id].status = "pending"
           \/ \E t \in Suspended("telegram_webhook") : t.action_id = id

\* C37: no wallet history is ever such that the detector raises on every
\* portfolio a later fetch can return, which would end every later cycle of
\* the wallet before its append.
C37_WalletNeverStuck ==
    \A w \in DOMAIN wallet_portfolios :
        \E f \in WalletFetches :
            detect_wallet_risks(f, wallet_portfolios[w]) # ZeroDiv

\* What a step of /pool/check shows of its verdict, against the verdict
\* `expected`: the reply of a quiet or failed check, and otherwise the alert
\* type in the reply or the type and severity of the action row it saved.
CheckShows(expected) ==
    CASE expected = NoAlert ->
           reply' = Reply("AlertResponse") /\ actions' = actions
      [] expected = ZeroDiv ->
           reply' = Reply("error") /\ actions' = actions
      [] OTHER ->
           \/ /\ actions' = actions
              /\ reply' = AlertResponse(expected, TRUE, FALSE)
           \/ /\ Len(actions') = Len(actions) + 1
              /\ actions'[Len(actions')].alert_type = expected.alertType
              /\ actions'[Len(actions')].severity = expected.severity

\* C38: a /pool/check of a snapshot gives the verdict the scheduler's
\* detector gives for that snapshot on the history stored before the check.
C38_CheckUsesPriorHistory ==
    [][\A tg \in {0, 1}, d \in DetectPools :
          check_pool_endpoint("0xP1", tg, d, "ai", "json_ok", TRUE)
              => CheckShows(detect_pool_anomalies(d, HistoryOf(pool_history, "0xp1")))]_vars

\* C39: while monitoring_active is true a monitor loop is scheduled or
\* running.
C39_ActiveFlagHasLoop ==
    monitoring_active => \E l \in 1 .. MaxLoops : Alive(l)

====
